---------------------------- MODULE Spec2Model ----------------------------
(***************************************************************************)
(* A model of RDFS (src/rdfs/src): the super-block geometry, the          *)
(* allocation bitmap, the byte layout of the metadata blocks and the      *)
(* RDFS facade over one shard file.                                       *)
(*                                                                         *)
(* Conventions.                                                            *)
(*  - A byte buffer (Vec<u8>, &[u8], the shard file) is a sequence of      *)
(*    integers 0..255; Rust offset k is index k+1.                         *)
(*  - A u64 is carried as an integer v with -2^31 < v < 2^31 that is      *)
(*    congruent to it modulo 2^64: v < 0 stands for 2^64 + v, which is    *)
(*    what a wrapping subtraction below zero leaves (TLC integers are     *)
(*    32 bits wide).  `storage` alone exceeds that range under the        *)
(*    authors' preconditions and is carried as its little-endian bytes.   *)
(*  - f64 arithmetic of the geometry is carried out exactly, over         *)
(*    rationals; within the parameter sets below the f64 results agree.   *)
(*  - overflow_checks is the build's integer-overflow setting: TRUE       *)
(*    (debug profile) an overflowing u64/usize operation panics, FALSE    *)
(*    (release profile) it wraps.                                         *)
(***************************************************************************)
EXTENDS Integers, Sequences, FiniteSets, TLC

VARIABLES
    overflow_checks,  \* build profile: do integer overflows panic?
    args,             \* arguments of RDFS::new / SuperBlock::new
    geometry,         \* result of SuperBlock::new(args) once computed
    bitmaps_block,    \* a BitmapsBlock value under set_bit / clear_bit
    clock,            \* wall clock read by current_time_as_u64
    prior,            \* what the path held when RDFS::new was called
    file,             \* the shard file at {dir}/{hex(program_id)}.RDFS
    pc,               \* position of RDFS::new in its sequence of file operations
    system,           \* super block held by RDFS::new (its local super_block)
    mounted,          \* result of the latest RDFS::mount_drive
    last,             \* the latest block accessor call and its outcome
    buffer,           \* input buffer handed to a parser
    parsed,           \* result of the parser on buffer
    block,            \* a block value handed to to_bytes, with its block size
    iterator          \* the iterator the latest RDFS::read_blocks returned

vars == <<overflow_checks, args, geometry, bitmaps_block, clock, prior, file, pc, system,
          mounted, last, buffer, parsed, block, iterator>>

(***************************************************************************)
(* constants.rs                                                            *)
(***************************************************************************)
PK_SIZE == 32
SIG_SIZE == 64
SB_SIZE == 256
RESERVED_AB == 72
RESERVED_BB == 96
RESERVED_DB == 88
RESERVED_CDB == 92
RESERVED_IB == 1136
RESERVED_LIB == 80
CONTENT_SIZE == 16
NAME_SLOTS == 255

\* b"RDFS-SHR" and b"RDFS-PRV"
FS_MAGIC_SHARED == <<82, 68, 70, 83, 45, 83, 72, 82>>
FS_MAGIC_PRIVATE == <<82, 68, 70, 83, 45, 80, 82, 86>>

(***************************************************************************)
(* Byte-level helpers                                                      *)
(***************************************************************************)
Fill(b, n) == [i \in 1..n |-> b]

Max(a, b) == IF a >= b THEN a ELSE b

RECURSIVE LeBytes(_, _)
\* the k low-order little-endian bytes of n (two's complement for n < 0)
LeBytes(n, k) == IF k = 0 THEN <<>> ELSE <<n % 256>> \o LeBytes(n \div 256, k - 1)

\* u64::to_le_bytes
to_le_bytes(n) == LeBytes(n, 8)

\* u32::to_le_bytes
to_le_bytes32(n) == LeBytes(n, 4)

\* u64::from_le_bytes of the 8 bytes b; a value whose upper five bytes are
\* all ones is the wrapped (negative) stand-in
from_le_bytes(b) ==
    IF b[4] >= 128 /\ \A i \in 5..8 : b[i] = 255
    THEN b[1] + 256 * b[2] + 65536 * b[3] + 16777216 * (b[4] - 256)
    ELSE b[1] + 256 * (b[2] + 256 * (b[3] + 256 * (b[4] + 256 * (b[5]
              + 256 * (b[6] + 256 * (b[7] + 256 * b[8]))))))

\* u32::from_le_bytes
from_le_bytes32(b) == b[1] + 256 * (b[2] + 256 * (b[3] + 256 * b[4]))

\* data[from..to] of Rust (0-based, end exclusive)
Slice(data, from, to) == SubSeq(data, from + 1, to)

\* a < b on u64 (negative stand-ins are the largest values)
U64Lt(a, b) == IF (a < 0) = (b < 0) THEN a < b ELSE b < 0

\* 2^64 mod m, for 0 < m < 46341
Two64Mod(m) ==
    LET p16 == 65536 % m
        p32 == (p16 * p16) % m
    IN  (p32 * p32) % m

\* a % m on u64
U64Mod(a, m) == IF a >= 0 THEN a % m ELSE ((a % m) + Two64Mod(m)) % m

(***************************************************************************)
(* Wide naturals: little-endian base-256 digit sequences, for the products *)
(* of the geometry that exceed 32 bits.                                    *)
(***************************************************************************)
RECURSIVE WideMulCarry(_, _, _)
WideMulCarry(w, k, carry) ==
    IF w = <<>>
    THEN IF carry = 0 THEN <<>> ELSE <<carry % 256>> \o WideMulCarry(<<>>, k, carry \div 256)
    ELSE LET t == Head(w) * k + carry
         IN  <<t % 256>> \o WideMulCarry(Tail(w), k, t \div 256)

\* w * k
WideMul(w, k) == WideMulCarry(w, k, 0)

RECURSIVE WideDivRec(_, _, _, _, _)
WideDivRec(w, i, d, q, r) ==
    IF i = 0 THEN [q |-> q, r |-> r, d |-> d]
    ELSE LET cur == r * 256 + w[i]
         IN  WideDivRec(w, i - 1, d, q * 256 + (cur \div d), cur % d)

\* the exact quotient w / d as the rational q + r/d with 0 <= r < d
WideDiv(w, d) == WideDivRec(w, Len(w), d, 0, 0)

\* ceil and floor of a rational q + r/d
RatCeil(x) == x.q + (IF x.r > 0 THEN 1 ELSE 0)
RatFloor(x) == x.q

\* ceil(a / m) for integers a and m > 0
CeilDiv(a, m) == -((-a) \div m)

\* `x as u64` of a finite f64 that is an integer: saturates at 0
SatU64(v) == IF v < 0 THEN 0 ELSE v


\* a <= b on wide naturals
WideLe(a, b) ==
    LET n == Max(Len(a), Len(b))
        pa == a \o Fill(0, n - Len(a))
        pb == b \o Fill(0, n - Len(b))
    IN  \/ pa = pb
        \/ \E i \in 1..n : pa[i] < pb[i] /\ \A j \in (i + 1)..n : pa[j] = pb[j]

(***************************************************************************)
(* core/super_block.rs: FileSystemType and SuperBlock                      *)
(***************************************************************************)
ZeroSignature == Fill(0, SIG_SIZE)

\* FileSystemType::to_bytes
FileSystemType_to_bytes(magic) ==
    IF magic = "Shared" THEN FS_MAGIC_SHARED ELSE FS_MAGIC_PRIVATE

\* a magic check that looks at the "RDFS-" prefix only
FileSystemType_from_bytes_prefix_only(data) ==
    IF Len(data) # 8 THEN [err |-> "InvalidLength", magic |-> "Shared"]
    ELSE IF SubSeq(data, 1, 5) = SubSeq(FS_MAGIC_SHARED, 1, 5)
    THEN [err |-> "Ok", magic |-> IF data = FS_MAGIC_PRIVATE THEN "Private" ELSE "Shared"]
    ELSE [err |-> "InvalidMagicWord", magic |-> "Shared"]

\* FileSystemType::from_bytes on an 8-byte slice
FileSystemType_from_bytes(data) ==
    IF Len(data) # 8 THEN [err |-> "InvalidLength", magic |-> "Shared"]
    ELSE IF data = FS_MAGIC_SHARED THEN [err |-> "Ok", magic |-> "Shared"]
    ELSE IF data = FS_MAGIC_PRIVATE THEN [err |-> "Ok", magic |-> "Private"]
    ELSE [err |-> "InvalidMagicWord", magic |-> "Shared"]

\* storage as f64 * redundancy_ratio / nodes as f64, as the exact rational
\* (storage * redundancy) / (100 * nodes)
NodeStorageTarget(storage, redundancy, nodes) ==
    WideDiv(WideMul(storage, redundancy), 100 * nodes)

\* a node_storage that forgets the bitmap bytes
shared_node_storage_without_bitmap(nodes, block_size, total_blocks) ==
    SB_SIZE + RESERVED_AB + PK_SIZE * nodes + RESERVED_BB + total_blocks * block_size

\* SuperBlock::new_shared, the corrected node_storage
shared_node_storage(nodes, block_size, total_blocks) ==
    SB_SIZE + RESERVED_AB + PK_SIZE * nodes + RESERVED_BB
    + (total_blocks \div 8) + total_blocks * block_size

\* SuperBlock::new_shared.  The result carries `panicked`: with overflow
\* checks the subtractions block_size - RESERVED_CDB and total_blocks - 1
\* abort when they go below zero; without them they wrap.
\* ceil((remain / (block_size + 0.125)) / 8.0) is ceil(remain / (8*block_size + 1)),
\* and for the integer divisor that equals ceil(ceil(remain) / (8*block_size + 1)).
SuperBlock_new_shared(magic, owner, program_id, storage, redundancy, nodes, block_size, checks) ==
    LET block_size_for_data == block_size - RESERVED_CDB
        client_block_size ==
            RatFloor(WideDiv(WideMul(to_le_bytes(block_size_for_data * nodes), 100), redundancy))
        remain_ceil == RatCeil(NodeStorageTarget(storage, redundancy, nodes))
                       - (SB_SIZE + RESERVED_AB + PK_SIZE * nodes + RESERVED_BB)
        total_blocks == SatU64(CeilDiv(remain_ceil, 8 * block_size + 1)) * 8
        node_storage == shared_node_storage(nodes, block_size, total_blocks)
        nodes_address_size == RESERVED_AB + PK_SIZE * nodes
        bitmaps_size == RESERVED_BB + total_blocks \div 8
        nodes_address_pointer == SB_SIZE
        bitmaps_pointer == nodes_address_pointer + nodes_address_size
        data_pointer == bitmaps_pointer + bitmaps_size
        inode_pointer == data_pointer + block_size * (total_blocks - 1)
        max_content_pointers == SatU64((block_size - RESERVED_IB) \div CONTENT_SIZE)
        max_linked_content_pointers == SatU64((block_size - RESERVED_LIB) \div CONTENT_SIZE)
    IN  [panicked |-> checks /\ (block_size < RESERVED_CDB \/ total_blocks = 0),
         sb |-> [magic |-> magic, owner |-> owner, program_id |-> program_id,
                 storage |-> storage, redundancy |-> redundancy, nodes |-> nodes,
                 block_size |-> block_size, total_blocks |-> total_blocks,
                 client_block_size |-> client_block_size,
                 node_storage |-> node_storage,
                 nodes_address_pointer |-> nodes_address_pointer,
                 bitmaps_pointer |-> bitmaps_pointer,
                 data_pointer |-> data_pointer,
                 inode_pointer |-> inode_pointer,
                 nodes_address_size |-> nodes_address_size,
                 bitmaps_size |-> bitmaps_size,
                 max_content_pointers |-> max_content_pointers,
                 max_linked_content_pointers |-> max_linked_content_pointers,
                 signature |-> ZeroSignature]]

\* SuperBlock::new_private.  A block_size just below 2^64 (a negative
\* stand-in) exceeds every remain_storage of the model, so the quotient
\* remain_storage / block_size as f64 lies below 1 and its ceil is 1 for a
\* positive remainder; the sum for node_storage then passes 2^64 when the
\* stand-in sum is not negative: with overflow checks that aborts, without
\* them it wraps.
SuperBlock_new_private(magic, owner, program_id, storage, redundancy, nodes, block_size, checks) ==
    LET remain_ceil == RatCeil(NodeStorageTarget(storage, redundancy, nodes))
                       - (SB_SIZE + RESERVED_AB + PK_SIZE * nodes)
        total_blocks == IF block_size < 0
                        THEN (IF remain_ceil > 0 THEN 1 ELSE 0)
                        ELSE SatU64(CeilDiv(remain_ceil, block_size))
        node_storage == SB_SIZE + RESERVED_AB + PK_SIZE * nodes + total_blocks * block_size
        nodes_address_size == RESERVED_AB + PK_SIZE * nodes
        nodes_address_pointer == SB_SIZE
        data_pointer == nodes_address_pointer + nodes_address_size
    IN  [panicked |-> checks /\ total_blocks * block_size < 0 /\ node_storage >= 0,
         sb |-> [magic |-> magic, owner |-> owner, program_id |-> program_id,
                 storage |-> storage, redundancy |-> redundancy, nodes |-> nodes,
                 block_size |-> block_size, total_blocks |-> total_blocks,
                 client_block_size |-> 0,
                 node_storage |-> node_storage,
                 nodes_address_pointer |-> nodes_address_pointer,
                 bitmaps_pointer |-> 0,
                 data_pointer |-> data_pointer,
                 inode_pointer |-> 0,
                 nodes_address_size |-> nodes_address_size,
                 bitmaps_size |-> 0,
                 max_content_pointers |-> 0,
                 max_linked_content_pointers |-> 0,
                 signature |-> ZeroSignature]]

\* SuperBlock::new
SuperBlock_new(magic, owner, program_id, storage, redundancy, nodes, block_size, checks) ==
    IF magic = "Shared"
    THEN SuperBlock_new_shared(magic, owner, program_id, storage, redundancy, nodes, block_size, checks)
    ELSE SuperBlock_new_private(magic, owner, program_id, storage, redundancy, nodes, block_size, checks)

\* SuperBlock::to_bytes
SuperBlock_to_bytes(sb) ==
    FileSystemType_to_bytes(sb.magic) \o sb.owner \o sb.program_id \o sb.storage
    \o to_le_bytes(sb.redundancy) \o to_le_bytes(sb.nodes) \o to_le_bytes(sb.block_size)
    \o to_le_bytes(sb.total_blocks) \o to_le_bytes(sb.client_block_size)
    \o to_le_bytes(sb.node_storage) \o to_le_bytes(sb.nodes_address_pointer)
    \o to_le_bytes(sb.bitmaps_pointer) \o to_le_bytes(sb.data_pointer)
    \o to_le_bytes(sb.inode_pointer) \o to_le_bytes(sb.nodes_address_size)
    \o to_le_bytes(sb.bitmaps_size) \o to_le_bytes(sb.max_content_pointers)
    \o to_le_bytes(sb.max_linked_content_pointers) \o sb.signature

\* the super block value standing in where a call returned no super block
NoSuperBlock ==
    [magic |-> "Shared", owner |-> <<>>, program_id |-> <<>>, storage |-> <<>>,
     redundancy |-> 0, nodes |-> 0, block_size |-> 0, total_blocks |-> 0,
     client_block_size |-> 0, node_storage |-> 0, nodes_address_pointer |-> 0,
     bitmaps_pointer |-> 0, data_pointer |-> 0, inode_pointer |-> 0,
     nodes_address_size |-> 0, bitmaps_size |-> 0, max_content_pointers |-> 0,
     max_linked_content_pointers |-> 0, signature |-> <<>>]

\* SuperBlock::from_bytes
SuperBlock_from_bytes(data) ==
    IF Len(data) # SB_SIZE THEN [err |-> "InvalidSuperBlockLength", sb |-> NoSuperBlock]
    ELSE LET magic == FileSystemType_from_bytes(Slice(data, 0, 8))
         IN  IF magic.err # "Ok" THEN [err |-> magic.err, sb |-> NoSuperBlock]
             ELSE [err |-> "Ok",
                   sb |-> [magic |-> magic.magic,
                           owner |-> Slice(data, 8, 40),
                           program_id |-> Slice(data, 40, 72),
                           storage |-> Slice(data, 72, 80),
                           redundancy |-> from_le_bytes(Slice(data, 80, 88)),
                           nodes |-> from_le_bytes(Slice(data, 88, 96)),
                           block_size |-> from_le_bytes(Slice(data, 96, 104)),
                           total_blocks |-> from_le_bytes(Slice(data, 104, 112)),
                           client_block_size |-> from_le_bytes(Slice(data, 112, 120)),
                           node_storage |-> from_le_bytes(Slice(data, 120, 128)),
                           nodes_address_pointer |-> from_le_bytes(Slice(data, 128, 136)),
                           bitmaps_pointer |-> from_le_bytes(Slice(data, 136, 144)),
                           data_pointer |-> from_le_bytes(Slice(data, 144, 152)),
                           inode_pointer |-> from_le_bytes(Slice(data, 152, 160)),
                           nodes_address_size |-> from_le_bytes(Slice(data, 160, 168)),
                           bitmaps_size |-> from_le_bytes(Slice(data, 168, 176)),
                           max_content_pointers |-> from_le_bytes(Slice(data, 176, 184)),
                           max_linked_content_pointers |-> from_le_bytes(Slice(data, 184, 192)),
                           signature |-> Slice(data, 192, 256)]]

(***************************************************************************)
(* utils.rs: current_time_as_u64 and the file primitives.  A file is       *)
(* [exists, bytes]; bytes past a seek beyond the end read as zero.          *)
(***************************************************************************)
NoFile == [exists |-> FALSE, bytes |-> <<>>]

\* seek(SeekFrom::Start(start)) followed by write_all(data) on an open file
WriteAt(bytes, start, data) ==
    IF data = <<>> THEN bytes
    ELSE LET padded == IF Len(bytes) < start THEN bytes \o Fill(0, start - Len(bytes))
                       ELSE bytes
         IN  SubSeq(padded, 1, start) \o data
             \o SubSeq(padded, start + Len(data) + 1, Len(padded))

\* create_physical_file: open with create(true), truncate(false), write(true);
\* for size > 0 seek to size - 1 and write one zero byte
create_physical_file(f, size) ==
    [err |-> "Ok",
     file |-> [exists |-> TRUE,
               bytes |-> IF size > 0 THEN WriteAt(f.bytes, size - 1, <<0>>) ELSE f.bytes]]

\* write_range: open for writing (the file must exist), seek to start (an
\* offset above i64::MAX is refused by the seek), write_all(data)
write_range(f, start, data) ==
    IF ~f.exists \/ start < 0 THEN [err |-> "IoError", file |-> f]
    ELSE [err |-> "Ok", file |-> [exists |-> TRUE, bytes |-> WriteAt(f.bytes, start, data)]]

\* read_range: open, seek to start, read_exact(end - start) bytes
read_range(f, start, end) ==
    IF ~f.exists \/ start < 0 THEN [err |-> "IoError", data |-> <<>>]
    ELSE IF end - start > 0 /\ end > Len(f.bytes) THEN [err |-> "IoError", data |-> <<>>]
    ELSE [err |-> "Ok", data |-> Slice(f.bytes, start, end)]

(***************************************************************************)
(* core/bitmaps_block.rs                                                   *)
(***************************************************************************)
RECURSIVE Pow2(_)
Pow2(k) == IF k = 0 THEN 1 ELSE 2 * Pow2(k - 1)

\* byte & (1 << bit) != 0
BitOf(byte, bit) == (byte \div Pow2(bit)) % 2 = 1

\* BitmapsBlock::new
BitmapsBlock_new(total_blocks, timestamp) ==
    [total_blocks |-> total_blocks,
     free_blocks |-> total_blocks,
     last_modify |-> timestamp,
     bit_field |-> Fill(0, total_blocks \div 8),
     signature |-> ZeroSignature]

\* BitmapsBlock::get_bit
get_bit(b, bit_index) ==
    LET byte == bit_index \div 8
        bit == bit_index % 8
    IN  IF ~U64Lt(byte, Len(b.bit_field)) THEN FALSE
        ELSE BitOf(b.bit_field[byte + 1], bit)

\* a set_bit that refreshes last_modify whenever the index is in range
set_bit_always_stamps(b, bit_index, time) ==
    LET byte == bit_index \div 8
        bit == bit_index % 8
    IN  IF ~U64Lt(byte, Len(b.bit_field)) THEN b
        ELSE IF BitOf(b.bit_field[byte + 1], bit)
        THEN [b EXCEPT !.last_modify = IF time.ok THEN time.t ELSE @]
        ELSE [b EXCEPT !.bit_field[byte + 1] = @ + Pow2(bit),
                       !.free_blocks = @ - 1,
                       !.last_modify = IF time.ok THEN time.t ELSE @]

\* BitmapsBlock::set_bit; time is the result of current_time_as_u64
set_bit(b, bit_index, time) ==
    LET byte == bit_index \div 8
        bit == bit_index % 8
    IN  IF U64Lt(byte, Len(b.bit_field)) /\ ~BitOf(b.bit_field[byte + 1], bit)
        THEN [b EXCEPT !.bit_field[byte + 1] = @ + Pow2(bit),
                       !.free_blocks = @ - 1,
                       !.last_modify = IF time.ok THEN time.t ELSE @]
        ELSE b

\* BitmapsBlock::clear_bit
clear_bit(b, bit_index, time) ==
    LET byte == bit_index \div 8
        bit == bit_index % 8
    IN  IF U64Lt(byte, Len(b.bit_field)) /\ BitOf(b.bit_field[byte + 1], bit)
        THEN [b EXCEPT !.bit_field[byte + 1] = @ - Pow2(bit),
                       !.free_blocks = @ + 1,
                       !.last_modify = IF time.ok THEN time.t ELSE @]
        ELSE b

\* BitmapsBlock::to_bytes
BitmapsBlock_to_bytes(b) ==
    to_le_bytes(b.total_blocks) \o to_le_bytes(b.free_blocks) \o to_le_bytes(b.last_modify)
    \o to_le_bytes(Len(b.bit_field)) \o b.bit_field \o b.signature

NoBitmapsBlock ==
    [total_blocks |-> 0, free_blocks |-> 0, last_modify |-> 0, bit_field |-> <<>>,
     signature |-> <<>>]

\* BitmapsBlock::from_bytes; slicing a buffer shorter than the fixed fields aborts
BitmapsBlock_from_bytes(data, bitmaps_size, checks) ==
    IF Len(data) # bitmaps_size THEN [err |-> "InvalidBitmapsBlockLength", b |-> NoBitmapsBlock]
    ELSE IF Len(data) < 32 THEN [err |-> "panic", b |-> NoBitmapsBlock]
    ELSE LET length == from_le_bytes(Slice(data, 24, 32))
         IN  IF checks /\ length < 0 /\ RESERVED_BB + length >= 0
             THEN [err |-> "panic", b |-> NoBitmapsBlock]
             ELSE IF RESERVED_BB + length # bitmaps_size
             THEN [err |-> "InvalidEncodedBitmapsBlockLength", b |-> NoBitmapsBlock]
             ELSE IF Len(data) - SIG_SIZE < 32 THEN [err |-> "panic", b |-> NoBitmapsBlock]
             ELSE [err |-> "Ok",
                   b |-> [total_blocks |-> from_le_bytes(Slice(data, 0, 8)),
                          free_blocks |-> from_le_bytes(Slice(data, 8, 16)),
                          last_modify |-> from_le_bytes(Slice(data, 16, 24)),
                          bit_field |-> Slice(data, 32, Len(data) - SIG_SIZE),
                          signature |-> Slice(data, bitmaps_size - SIG_SIZE, bitmaps_size)]]

\* number of zero bits of a bit field
RECURSIVE ZeroBitsOfByte(_, _)
ZeroBitsOfByte(byte, k) ==
    IF k = 0 THEN 0 ELSE (IF byte % 2 = 0 THEN 1 ELSE 0) + ZeroBitsOfByte(byte \div 2, k - 1)

RECURSIVE CountZeroBits(_)
CountZeroBits(bit_field) ==
    IF bit_field = <<>> THEN 0
    ELSE ZeroBitsOfByte(Head(bit_field), 8) + CountZeroBits(Tail(bit_field))

\* extend_from_slice of each element in turn; the elements have one width
Flatten(seqs) ==
    IF Len(seqs) = 0 THEN <<>>
    ELSE LET w == Len(seqs[1])
         IN  [i \in 1..(Len(seqs) * w) |-> seqs[((i - 1) \div w) + 1][((i - 1) % w) + 1]]

\* AddressesBlock::new
AddressesBlock_new(addresses, signature) == [addresses |-> addresses, signature |-> signature]

\* AddressesBlock::to_bytes
AddressesBlock_to_bytes(a) ==
    to_le_bytes(Len(a.addresses)) \o Flatten(a.addresses) \o a.signature

NoAddressesBlock == [addresses |-> <<>>, signature |-> <<>>]

\* an AddressesBlock::from_bytes that reads the addresses from offset 0
AddressesBlock_from_bytes_shifted(data, nodes_address_size, checks) ==
    IF Len(data) # nodes_address_size \/ Len(data) < RESERVED_AB
    THEN [err |-> "InvalidAddressBlockLength", a |-> NoAddressesBlock]
    ELSE LET length == from_le_bytes(Slice(data, 0, 8))
         IN  IF RESERVED_AB + PK_SIZE * length # nodes_address_size
             THEN [err |-> "InvalidEncodedAddressBlockLength", a |-> NoAddressesBlock]
             ELSE [err |-> "Ok",
                   a |-> [addresses |-> [i \in 1..length |->
                                           Slice(data, (i - 1) * PK_SIZE, i * PK_SIZE)],
                          signature |-> Slice(data, nodes_address_size - SIG_SIZE,
                                              nodes_address_size)]]

\* AddressesBlock::from_bytes.  The declared length is a u64 of which the
\* model carries the low 59 bits as a number (low) and the upper 5 bits as
\* a flag (wide): PK_SIZE * length overflows exactly when one of the upper
\* bits is set.  With overflow checks the product aborts; without them it
\* wraps to PK_SIZE * low, and a length that passes the size check is then
\* handed to Vec::with_capacity, which aborts on a capacity of 2^59 or more
\* 32-byte elements.
AddressesBlock_from_bytes(data, nodes_address_size, checks) ==
    IF Len(data) # nodes_address_size
    THEN [err |-> "InvalidAddressBlockLength", a |-> NoAddressesBlock]
    ELSE IF Len(data) < 8 THEN [err |-> "panic", a |-> NoAddressesBlock]
    ELSE LET wide == data[8] >= 8
             low == from_le_bytes(SubSeq(data, 1, 7) \o <<data[8] % 8>>)
         IN  IF wide /\ checks THEN [err |-> "panic", a |-> NoAddressesBlock]
             ELSE IF RESERVED_AB + PK_SIZE * low # nodes_address_size
             THEN [err |-> "InvalidEncodedAddressBlockLength", a |-> NoAddressesBlock]
             ELSE IF wide THEN [err |-> "panic", a |-> NoAddressesBlock]
             ELSE [err |-> "Ok",
                   a |-> [addresses |-> [i \in 1..low |->
                                           Slice(data, 8 + (i - 1) * PK_SIZE, 8 + i * PK_SIZE)],
                          signature |-> Slice(data, nodes_address_size - SIG_SIZE,
                                              nodes_address_size)]]

(***************************************************************************)
(* core/inode_block.rs: ContentName, the content entries and the four      *)
(* inode kinds.  A string is a sequence of code points.                    *)
(***************************************************************************)
\* a ContentName::new that counts every code point of s
ContentName_new_untruncated(s) ==
    [length |-> Len(s),
     name |-> [i \in 1..NAME_SLOTS |-> IF i <= Len(s) THEN s[i] ELSE 0]]

\* ContentName::new: the first 255 code points, the remaining slots zero
ContentName_new(s) ==
    LET n == IF Len(s) > NAME_SLOTS THEN NAME_SLOTS ELSE Len(s)
    IN  [length |-> n, name |-> [i \in 1..NAME_SLOTS |-> IF i <= n THEN s[i] ELSE 0]]

\* ContentName::to_bytes
ContentName_to_bytes(c) ==
    to_le_bytes32(c.length) \o Flatten([i \in 1..NAME_SLOTS |-> to_le_bytes32(c.name[i])])

\* ContentName::from_bytes
ContentName_from_bytes(data) ==
    [length |-> from_le_bytes32(Slice(data, 0, 4)),
     name |-> [i \in 1..NAME_SLOTS |-> from_le_bytes32(Slice(data, 4 * i, 4 * i + 4))]]

\* char::from_u32(c).unwrap_or('\u{FFFD}')
CharOrReplacement(c) ==
    IF (c >= 0 /\ c < 55296) \/ (c > 57343 /\ c <= 1114111) THEN c ELSE 65533

\* ContentName::as_string; a length above 255 slices past the array and aborts
as_string(c) ==
    IF c.length > NAME_SLOTS THEN [err |-> "panic", s |-> <<>>]
    ELSE [err |-> "Ok", s |-> [i \in 1..c.length |-> CharOrReplacement(c.name[i])]]

\* DirContent::to_bytes
DirContent_to_bytes(c) ==
    to_le_bytes(c.pointer) \o to_le_bytes(IF c.inode_type = "Dir" THEN 0 ELSE 1)

\* DirContent::from_bytes with InodeType::from
DirContent_from_bytes(data) ==
    [pointer |-> from_le_bytes(Slice(data, 0, 8)),
     inode_type |-> IF from_le_bytes(Slice(data, 8, 16)) = 0 THEN "Dir" ELSE "File"]

\* Vec::resize(n, 0)
Resize(v, n) == IF n <= Len(v) THEN SubSeq(v, 1, n) ELSE v \o Fill(0, n - Len(v))

\* InodeDir::new
InodeDir_new(name, timestamp, size, total_blocks, content, linked) ==
    [name |-> name, created |-> timestamp, modify |-> timestamp, size |-> size,
     total_blocks |-> total_blocks, content |-> content, linked |-> linked,
     signature |-> ZeroSignature]

\* InodeDir::to_bytes, for block_size >= SIG_SIZE
InodeDir_to_bytes(inode, block_size) ==
    Resize(ContentName_to_bytes(inode.name)
           \o to_le_bytes(inode.created) \o to_le_bytes(inode.modify)
           \o to_le_bytes(inode.size) \o to_le_bytes(inode.total_blocks)
           \o to_le_bytes(inode.linked) \o to_le_bytes(Len(inode.content))
           \o Flatten([i \in 1..Len(inode.content) |-> DirContent_to_bytes(inode.content[i])]),
           block_size - SIG_SIZE)
    \o inode.signature

NoInodeDir ==
    [name |-> [length |-> 0, name |-> <<>>], created |-> 0, modify |-> 0, size |-> 0,
     total_blocks |-> 0, content |-> <<>>, linked |-> 0, signature |-> <<>>]

\* InodeDir::from_bytes.  Slices past the buffer abort; block_size - RESERVED_IB
\* below zero aborts with overflow checks and wraps to a huge bound without.
InodeDir_from_bytes(data, block_size, checks) ==
    IF Len(data) # block_size THEN [err |-> "InvalidInodeBlockLength", inode |-> NoInodeDir]
    ELSE IF Len(data) < 1072 THEN [err |-> "panic", inode |-> NoInodeDir]
    ELSE LET length == from_le_bytes(Slice(data, 1064, 1072))
             bound == block_size - RESERVED_IB
         IN  IF bound < 0 /\ checks THEN [err |-> "panic", inode |-> NoInodeDir]
             ELSE IF U64Lt(bound, length)
             THEN [err |-> "InvalidEncodedInodeBlockLength", inode |-> NoInodeDir]
             ELSE IF length < 0 \/ 1072 + length * CONTENT_SIZE > Len(data)
             THEN [err |-> "panic", inode |-> NoInodeDir]
             ELSE [err |-> "Ok",
                   inode |-> [name |-> ContentName_from_bytes(Slice(data, 0, 1024)),
                              created |-> from_le_bytes(Slice(data, 1024, 1032)),
                              modify |-> from_le_bytes(Slice(data, 1032, 1040)),
                              size |-> from_le_bytes(Slice(data, 1040, 1048)),
                              total_blocks |-> from_le_bytes(Slice(data, 1048, 1056)),
                              linked |-> from_le_bytes(Slice(data, 1056, 1064)),
                              content |-> [i \in 1..length |->
                                   DirContent_from_bytes(Slice(data, 1072 + (i - 1) * CONTENT_SIZE,
                                                               1072 + i * CONTENT_SIZE))],
                              signature |-> Slice(data, block_size - SIG_SIZE, block_size)]]

\* FileContent::to_bytes
FileContent_to_bytes(c) == to_le_bytes(c.pointer) \o to_le_bytes(c.blocks)

\* FileContent::from_bytes
FileContent_from_bytes(data) ==
    [pointer |-> from_le_bytes(Slice(data, 0, 8)),
     blocks |-> from_le_bytes(Slice(data, 8, 16))]

\* InodeFile::new
InodeFile_new(name, timestamp, size, total_blocks, content, linked) ==
    [name |-> name, created |-> timestamp, modify |-> timestamp, size |-> size,
     total_blocks |-> total_blocks, content |-> content, linked |-> linked,
     signature |-> ZeroSignature]

\* an InodeFile::to_bytes that does not pad to the block size
InodeFile_to_bytes_unpadded(inode, block_size) ==
    ContentName_to_bytes(inode.name)
    \o to_le_bytes(inode.created) \o to_le_bytes(inode.modify)
    \o to_le_bytes(inode.size) \o to_le_bytes(inode.total_blocks)
    \o to_le_bytes(inode.linked) \o to_le_bytes(Len(inode.content))
    \o Flatten([i \in 1..Len(inode.content) |-> FileContent_to_bytes(inode.content[i])])
    \o inode.signature

\* InodeFile::to_bytes, for block_size >= SIG_SIZE
InodeFile_to_bytes(inode, block_size) ==
    Resize(ContentName_to_bytes(inode.name)
           \o to_le_bytes(inode.created) \o to_le_bytes(inode.modify)
           \o to_le_bytes(inode.size) \o to_le_bytes(inode.total_blocks)
           \o to_le_bytes(inode.linked) \o to_le_bytes(Len(inode.content))
           \o Flatten([i \in 1..Len(inode.content) |-> FileContent_to_bytes(inode.content[i])]),
           block_size - SIG_SIZE)
    \o inode.signature

\* InodeFile::from_bytes
InodeFile_from_bytes(data, block_size, checks) ==
    IF Len(data) # block_size THEN [err |-> "InvalidInodeBlockLength", inode |-> NoInodeDir]
    ELSE IF Len(data) < 1072 THEN [err |-> "panic", inode |-> NoInodeDir]
    ELSE LET length == from_le_bytes(Slice(data, 1064, 1072))
             bound == block_size - RESERVED_IB
         IN  IF bound < 0 /\ checks THEN [err |-> "panic", inode |-> NoInodeDir]
             ELSE IF U64Lt(bound, length)
             THEN [err |-> "InvalidEncodedInodeBlockLength", inode |-> NoInodeDir]
             ELSE IF length < 0 \/ 1072 + length * CONTENT_SIZE > Len(data)
             THEN [err |-> "panic", inode |-> NoInodeDir]
             ELSE [err |-> "Ok",
                   inode |-> [name |-> ContentName_from_bytes(Slice(data, 0, 1024)),
                              created |-> from_le_bytes(Slice(data, 1024, 1032)),
                              modify |-> from_le_bytes(Slice(data, 1032, 1040)),
                              size |-> from_le_bytes(Slice(data, 1040, 1048)),
                              total_blocks |-> from_le_bytes(Slice(data, 1048, 1056)),
                              linked |-> from_le_bytes(Slice(data, 1056, 1064)),
                              content |-> [i \in 1..length |->
                                   FileContent_from_bytes(Slice(data, 1072 + (i - 1) * CONTENT_SIZE,
                                                                1072 + i * CONTENT_SIZE))],
                              signature |-> Slice(data, block_size - SIG_SIZE, block_size)]]

\* InodeLinkedDir::new and InodeLinkedFile::new
InodeLinked_new(content, linked) ==
    [content |-> content, linked |-> linked, signature |-> ZeroSignature]

\* InodeLinkedDir::to_bytes, for block_size >= SIG_SIZE
InodeLinkedDir_to_bytes(inode, block_size) ==
    Resize(to_le_bytes(inode.linked) \o to_le_bytes(Len(inode.content))
           \o Flatten([i \in 1..Len(inode.content) |-> DirContent_to_bytes(inode.content[i])]),
           block_size - SIG_SIZE)
    \o inode.signature

\* InodeLinkedDir::from_bytes.  Slices past the buffer abort; block_size -
\* RESERVED_LIB below zero aborts with overflow checks and wraps to a huge
\* bound without, and the signature slice then aborts.
InodeLinkedDir_from_bytes(data, block_size, checks) ==
    IF Len(data) # block_size THEN [err |-> "InvalidInodeBlockLength", inode |-> NoInodeDir]
    ELSE IF Len(data) < 16 THEN [err |-> "panic", inode |-> NoInodeDir]
    ELSE LET length == from_le_bytes(Slice(data, 8, 16))
             bound == block_size - RESERVED_LIB
         IN  IF bound < 0 /\ checks THEN [err |-> "panic", inode |-> NoInodeDir]
             ELSE IF U64Lt(bound, length)
             THEN [err |-> "InvalidEncodedInodeBlockLength", inode |-> NoInodeDir]
             ELSE IF length < 0 \/ (length > 0 /\ 16 + length * CONTENT_SIZE > Len(data))
                     \/ block_size < SIG_SIZE
             THEN [err |-> "panic", inode |-> NoInodeDir]
             ELSE [err |-> "Ok",
                   inode |-> [linked |-> from_le_bytes(Slice(data, 0, 8)),
                              content |-> [i \in 1..length |->
                                   DirContent_from_bytes(Slice(data, 16 + (i - 1) * CONTENT_SIZE,
                                                               16 + i * CONTENT_SIZE))],
                              signature |-> Slice(data, block_size - SIG_SIZE, block_size)]]

\* InodeLinkedFile::to_bytes, for block_size >= SIG_SIZE
InodeLinkedFile_to_bytes(inode, block_size) ==
    Resize(to_le_bytes(inode.linked) \o to_le_bytes(Len(inode.content))
           \o Flatten([i \in 1..Len(inode.content) |-> FileContent_to_bytes(inode.content[i])]),
           block_size - SIG_SIZE)
    \o inode.signature

\* InodeLinkedFile::from_bytes
InodeLinkedFile_from_bytes(data, block_size, checks) ==
    IF Len(data) # block_size THEN [err |-> "InvalidInodeBlockLength", inode |-> NoInodeDir]
    ELSE IF Len(data) < 16 THEN [err |-> "panic", inode |-> NoInodeDir]
    ELSE LET length == from_le_bytes(Slice(data, 8, 16))
             bound == block_size - RESERVED_LIB
         IN  IF bound < 0 /\ checks THEN [err |-> "panic", inode |-> NoInodeDir]
             ELSE IF U64Lt(bound, length)
             THEN [err |-> "InvalidEncodedInodeBlockLength", inode |-> NoInodeDir]
             ELSE IF length < 0 \/ (length > 0 /\ 16 + length * CONTENT_SIZE > Len(data))
                     \/ block_size < SIG_SIZE
             THEN [err |-> "panic", inode |-> NoInodeDir]
             ELSE [err |-> "Ok",
                   inode |-> [linked |-> from_le_bytes(Slice(data, 0, 8)),
                              content |-> [i \in 1..length |->
                                   FileContent_from_bytes(Slice(data, 16 + (i - 1) * CONTENT_SIZE,
                                                                16 + i * CONTENT_SIZE))],
                              signature |-> Slice(data, block_size - SIG_SIZE, block_size)]]

(***************************************************************************)
(* core/data_block.rs                                                      *)
(***************************************************************************)
\* DataBlock::new
DataBlock_new(block_number, timestamp, data) ==
    [block_number |-> block_number, timestamp |-> timestamp, data |-> data,
     signature |-> ZeroSignature]

\* DataBlock::to_bytes, for block_size >= SIG_SIZE
DataBlock_to_bytes(d, block_size) ==
    Resize(to_le_bytes(d.block_number) \o to_le_bytes(d.timestamp)
           \o to_le_bytes(Len(d.data)) \o d.data,
           block_size - SIG_SIZE)
    \o d.signature

NoDataBlock == [block_number |-> 0, timestamp |-> 0, data |-> <<>>, signature |-> <<>>]

\* a DataBlock::from_bytes that returns only the declared number of bytes
DataBlock_from_bytes_trimmed(data, block_size, checks) ==
    IF Len(data) # block_size \/ Len(data) < RESERVED_DB
    THEN [err |-> "InvalidDataBlockLength", d |-> NoDataBlock]
    ELSE LET length == from_le_bytes(Slice(data, 16, 24))
         IN  IF U64Lt(block_size - RESERVED_DB, length)
             THEN [err |-> "InvalidEncodedDataBlockLength", d |-> NoDataBlock]
             ELSE [err |-> "Ok",
                   d |-> [block_number |-> from_le_bytes(Slice(data, 0, 8)),
                          timestamp |-> from_le_bytes(Slice(data, 8, 16)),
                          data |-> Slice(data, 24, 24 + length),
                          signature |-> Slice(data, block_size - SIG_SIZE, block_size)]]

\* DataBlock::from_bytes.  block_size - RESERVED_DB below zero aborts with
\* overflow checks and wraps to a huge bound without; the slice
\* data[24..len - SIG_SIZE] then aborts.
DataBlock_from_bytes(data, block_size, checks) ==
    IF Len(data) # block_size THEN [err |-> "InvalidDataBlockLength", d |-> NoDataBlock]
    ELSE IF Len(data) < 24 THEN [err |-> "panic", d |-> NoDataBlock]
    ELSE LET length == from_le_bytes(Slice(data, 16, 24))
             bound == block_size - RESERVED_DB
         IN  IF bound < 0 /\ checks THEN [err |-> "panic", d |-> NoDataBlock]
             ELSE IF U64Lt(bound, length)
             THEN [err |-> "InvalidEncodedDataBlockLength", d |-> NoDataBlock]
             ELSE IF bound < 0 THEN [err |-> "panic", d |-> NoDataBlock]
             ELSE [err |-> "Ok",
                   d |-> [block_number |-> from_le_bytes(Slice(data, 0, 8)),
                          timestamp |-> from_le_bytes(Slice(data, 8, 16)),
                          data |-> Slice(data, 24, Len(data) - SIG_SIZE),
                          signature |-> Slice(data, block_size - SIG_SIZE, block_size)]]

(***************************************************************************)
(* core/block_signature.rs: the signature envelope.  The Ed25519 scheme of *)
(* the ed25519_dalek crate is modelled by its contract: the public key is  *)
(* a one-to-one image of the private key, a signature is determined by the *)
(* key and the message, and verification accepts a signature exactly when  *)
(* it is the one the matching private key produces for the message.        *)
(* Messages are told apart by their length and their first 31 bytes.       *)
(***************************************************************************)
\* VerifyingKey::from(&SigningKey::from_bytes(private_key)).to_bytes()
pk_of(private_key) == [i \in 1..PK_SIZE |-> 255 - private_key[i]]

\* sign_message: the 64 signature bytes of message under private_key
sign_message(private_key, message) ==
    pk_of(private_key) \o Resize(<<Len(message) % 256>> \o message, SIG_SIZE - PK_SIZE)

\* verify_signature: false when VerifyingKey::from_bytes refuses the key
\* bytes (here: a byte 255, which no private key the model signs with maps
\* to: its keys, Fill(k, 32) with k in 1..MaxKeys, have no zero byte), else
\* whether the signature is the one of message under the key
verify_signature(public_key, signature_bytes, message) ==
    IF \E i \in 1..PK_SIZE : public_key[i] = 255 THEN FALSE
    ELSE signature_bytes = sign_message([i \in 1..PK_SIZE |-> 255 - public_key[i]], message)

\* verify_bytes
verify_bytes(public_key, bytes) ==
    IF Len(bytes) < 64 THEN FALSE
    ELSE LET length == Len(bytes) - 64
         IN  verify_signature(public_key, Slice(bytes, length, Len(bytes)),
                              Slice(bytes, 0, length))

\* a sign_bytes that signs the whole buffer, trailing field included
sign_bytes_whole_buffer(private_key, bytes) ==
    IF Len(bytes) < 64 THEN bytes
    ELSE LET length == Len(bytes) - 64
         IN  Slice(bytes, 0, length) \o sign_message(private_key, bytes)

\* sign_bytes: the buffer after the call
sign_bytes(private_key, bytes) ==
    IF Len(bytes) < 64 THEN bytes
    ELSE LET length == Len(bytes) - 64
         IN  Slice(bytes, 0, length) \o sign_message(private_key, Slice(bytes, 0, length))

(***************************************************************************)
(* file_system.rs: the RDFS facade                                         *)
(***************************************************************************)
\* the name of the root directory, "./"
RootName == <<46, 47>>

\* RDFS::new_shared, the bitmap it writes: fresh, with the bit of the last
\* block set (total_blocks as usize - 1 wraps when total_blocks is 0)
RootBitmaps(sb, time) ==
    set_bit(BitmapsBlock_new(sb.total_blocks, time.t), sb.total_blocks - 1, time)

\* RDFS::new_shared, the root inode it writes
RootInode(sb, time) ==
    InodeDir_new(ContentName_new(RootName), time.t, 0, sb.total_blocks, <<>>, 0)

\* RDFS::new_shared / new_private, the address block they write
ZeroAddresses(sb) ==
    AddressesBlock_new([i \in 1..sb.nodes |-> Fill(0, PK_SIZE)], ZeroSignature)

\* a mount that reads one byte too few
mount_drive_short(f) ==
    LET r == read_range(f, 0, 255)
    IN  IF r.err # "Ok" THEN [err |-> r.err, sb |-> NoSuperBlock]
        ELSE SuperBlock_from_bytes(r.data)

\* RDFS::mount_drive
mount_drive(f) ==
    LET r == read_range(f, 0, 256)
    IN  IF r.err # "Ok" THEN [err |-> r.err, sb |-> NoSuperBlock]
        ELSE SuperBlock_from_bytes(r.data)

\* RDFS::read_bitmaps
read_bitmaps(sb, f) ==
    IF sb.magic = "Shared"
    THEN read_range(f, sb.bitmaps_pointer, sb.bitmaps_pointer + sb.bitmaps_size)
    ELSE [err |-> "NoBitmapsPrivateRDFS", data |-> <<>>]

\* a read_block without the alignment check
read_block_no_alignment(sb, f, pointer) ==
    IF U64Lt(pointer, sb.data_pointer)
    THEN [err |-> "PointerOutOfRange", data |-> <<>>, io |-> FALSE]
    ELSE LET r == read_range(f, pointer, pointer + sb.block_size)
         IN  [err |-> r.err, data |-> r.data, io |-> TRUE]

\* RDFS::read_block on a handle whose super block is sb; io: read_range was called
read_block(sb, f, pointer) ==
    IF U64Lt(pointer, sb.data_pointer)
    THEN [err |-> "PointerOutOfRange", data |-> <<>>, io |-> FALSE]
    ELSE IF sb.block_size = 0 THEN [err |-> "panic", data |-> <<>>, io |-> FALSE]
    ELSE IF U64Mod(pointer - sb.data_pointer, sb.block_size) # 0
    THEN [err |-> "InvalidPointerAlignment", data |-> <<>>, io |-> FALSE]
    ELSE LET r == read_range(f, pointer, pointer + sb.block_size)
         IN  [err |-> r.err, data |-> r.data, io |-> TRUE]

\* a write_block that puts every block at the start of the data region
write_block_at_data_pointer(sb, f, pointer, data) ==
    IF U64Lt(pointer, sb.data_pointer)
    THEN [err |-> "PointerOutOfRange", file |-> f, io |-> FALSE]
    ELSE IF sb.block_size = 0 THEN [err |-> "panic", file |-> f, io |-> FALSE]
    ELSE IF U64Mod(pointer - sb.data_pointer, sb.block_size) # 0
    THEN [err |-> "InvalidPointerAlignment", file |-> f, io |-> FALSE]
    ELSE LET r == write_range(f, sb.data_pointer, data)
         IN  [err |-> r.err, file |-> r.file, io |-> TRUE]

\* RDFS::write_block; io: write_range was called
write_block(sb, f, pointer, data) ==
    IF U64Lt(pointer, sb.data_pointer)
    THEN [err |-> "PointerOutOfRange", file |-> f, io |-> FALSE]
    ELSE IF sb.block_size = 0 THEN [err |-> "panic", file |-> f, io |-> FALSE]
    ELSE IF U64Mod(pointer - sb.data_pointer, sb.block_size) # 0
    THEN [err |-> "InvalidPointerAlignment", file |-> f, io |-> FALSE]
    ELSE LET r == write_range(f, pointer, data)
         IN  [err |-> r.err, file |-> r.file, io |-> TRUE]

\* RDFS::read_nodes_addresses
read_nodes_addresses(sb, f) ==
    read_range(f, sb.nodes_address_pointer, sb.nodes_address_pointer + sb.nodes_address_size)

\* RDFS::write_nodes_addresses
write_nodes_addresses(sb, f, data, checks) ==
    LET r == AddressesBlock_from_bytes(data, sb.nodes_address_size, checks)
    IN  IF r.err # "Ok" THEN [err |-> r.err, file |-> f]
        ELSE IF Len(r.a.addresses) # sb.nodes
        THEN [err |-> "InvalidAddressBlockLength", file |-> f]
        ELSE write_range(f, sb.nodes_address_pointer, data)

\* a write_bitmaps that also serves Private drives
write_bitmaps_any_magic(sb, f, data, checks) ==
    LET r == BitmapsBlock_from_bytes(data, sb.bitmaps_size, checks)
    IN  IF r.err # "Ok" THEN [err |-> r.err, file |-> f]
        ELSE IF r.b.total_blocks # sb.total_blocks \/ Len(r.b.bit_field) # sb.total_blocks
        THEN [err |-> "InvalidBitmapsBlockLength", file |-> f]
        ELSE write_range(f, sb.bitmaps_pointer, data)

\* RDFS::write_bitmaps
write_bitmaps(sb, f, data, checks) ==
    IF sb.magic = "Shared"
    THEN LET r == BitmapsBlock_from_bytes(data, sb.bitmaps_size, checks)
         IN  IF r.err # "Ok" THEN [err |-> r.err, file |-> f]
             ELSE IF r.b.total_blocks # sb.total_blocks
                     \/ Len(r.b.bit_field) # sb.total_blocks
             THEN [err |-> "InvalidBitmapsBlockLength", file |-> f]
             ELSE write_range(f, sb.bitmaps_pointer, data)
    ELSE [err |-> "NoBitmapsPrivateRDFS", file |-> f]

\* RDFS::read_blocks: the iterator before its first next().  It holds the
\* ranges, the block size of the handle and its position (range, block);
\* the path it also holds is the one shard file of the model.
read_blocks(sb, ranges) ==
    [active |-> TRUE, block_size |-> sb.block_size, ranges |-> ranges, range |-> 1,
     block |-> 0, some |-> FALSE, item |-> <<>>, yields |-> 0, panicked |-> FALSE]

\* an Iterator::next that reads the file as it was when read_blocks was
\* called
RECURSIVE iterator_next_at_call(_, _, _)
iterator_next_at_call(it, f, checks) ==
    IF it.range > Len(it.ranges) THEN [it EXCEPT !.some = FALSE, !.item = <<>>]
    ELSE LET content == it.ranges[it.range]
         IN  IF ~U64Lt(it.block, content.blocks)
             THEN iterator_next_at_call([it EXCEPT !.range = @ + 1, !.block = 0], f, checks)
             ELSE LET start == content.pointer + it.block * it.block_size
                      end == start + it.block_size
                      wraps == (content.pointer < 0 /\ start >= 0) \/ (start < 0 /\ end >= 0)
                      r == read_range(it.snapshot, start, end)
                      moved == [it EXCEPT !.block = @ + 1]
                  IN  IF wraps /\ checks
                      THEN [it EXCEPT !.panicked = TRUE, !.some = FALSE, !.item = <<>>]
                      ELSE IF r.err = "Ok"
                      THEN [moved EXCEPT !.some = TRUE, !.item = r.data, !.yields = @ + 1]
                      ELSE iterator_next_at_call(moved, f, checks)

\* Iterator::next on the iterator of read_blocks, reading the file f as it
\* is now: the flat_map steps through the blocks of the ranges, each step
\* computes start and end (with overflow checks the additions abort when
\* they pass 2^64, without them they wrap) and calls read_range, and
\* filter_map(Result::ok) goes on to the next block when the read failed.
\* some: next() returned Some(item); FALSE: it returned None.
RECURSIVE iterator_next(_, _, _)
iterator_next(it, f, checks) ==
    IF it.range > Len(it.ranges) THEN [it EXCEPT !.some = FALSE, !.item = <<>>]
    ELSE LET content == it.ranges[it.range]
         IN  IF ~U64Lt(it.block, content.blocks)
             THEN iterator_next([it EXCEPT !.range = @ + 1, !.block = 0], f, checks)
             ELSE LET start == content.pointer + it.block * it.block_size
                      end == start + it.block_size
                      wraps == (content.pointer < 0 /\ start >= 0) \/ (start < 0 /\ end >= 0)
                      r == read_range(f, start, end)
                      moved == [it EXCEPT !.block = @ + 1]
                  IN  IF wraps /\ checks
                      THEN [it EXCEPT !.panicked = TRUE, !.some = FALSE, !.item = <<>>]
                      ELSE IF r.err = "Ok"
                      THEN [moved EXCEPT !.some = TRUE, !.item = r.data, !.yields = @ + 1]
                      ELSE iterator_next(moved, f, checks)

(***************************************************************************)
(* Bounds and input sets                                                   *)
(***************************************************************************)
\* the authors' preconditions (super_block.rs, test::new_super_block_test)
MIN_STORAGE_PER_NODE == 1048576
MIN_REDUNDANCY == 100
MIN_NODES == 1
MIN_BLOCK_SIZE == 2048

MaxMiBPerNode == 2        \* geometry: storage up to this many MiB per node
MaxKeys == 2              \* signature: private keys
MaxMessage == 3           \* signature: bytes before the trailing field
HighPointerBelow == 40    \* iterator: a range pointer this far below 2^64
HighPointer == -HighPointerBelow     \* the pointer 2^64 - 40 (wrapped stand-in)
HugeBlockBelow == 100     \* geometry: a block size this far below 2^64
HugeBlockSize == -HugeBlockBelow     \* the block size 2^64 - 100 (wrapped stand-in)
MaxTotalBlocks == 16      \* bitmap: total_blocks handed to BitmapsBlock::new
MaxWrites == 1            \* facade: write_block calls that reach the file
MaxMetadataWrites == 2    \* facade: metadata writes that reach the file
MaxAddresses == 3         \* codec: addresses of an AddressesBlock
MaxBitmapSteps == 2       \* codec: set_bit / clear_bit calls behind a bitmap
MaxContent == 5           \* codec: content entries the largest inode block holds
MaxPayload == 40          \* codec: payload bytes the largest data block holds
LongName == 300           \* codec: code points of the longest name
PriorStorage == 100       \* facade: storage of the shard an earlier create left
PriorShort == 16          \* facade: length of a short file already at the path
PriorExtra == 3           \* facade: bytes by which a long prior file exceeds node_storage
Time0 == 7                \* wall clock at construction
Time1 == 8                \* wall clock at a later bitmap mutation

TestOwner == Fill(255, PK_SIZE)
TestProgramId == Fill(1, PK_SIZE)

\* w + k on wide naturals
WideAdd(w, k) == WideMulCarry(w, 1, k)

Accepted(a) ==
    /\ WideLe(WideMul(to_le_bytes(MIN_STORAGE_PER_NODE), a.nodes), a.storage)
    /\ a.redundancy >= MIN_REDUNDANCY
    /\ a.nodes >= MIN_NODES
    /\ ~U64Lt(a.block_size, MIN_BLOCK_SIZE)

\* a grid of small parameters for both layouts, and Private parameters
\* with a block size just below 2^64
GeometryArgs ==
    { [magic |-> m, owner |-> TestOwner, program_id |-> TestProgramId,
       storage |-> Resize(WideAdd(WideMul(to_le_bytes(MIN_STORAGE_PER_NODE), k * n), d), 8),
       redundancy |-> r, nodes |-> n, block_size |-> b] :
      m \in {"Shared", "Private"}, k \in 0..MaxMiBPerNode, d \in {0, 100, 5000},
      r \in {50, 100, 150, 300}, n \in {1, 2, 50, 32768}, b \in {512, 2048, 4096} }
    \cup
    { [magic |-> "Private", owner |-> TestOwner, program_id |-> TestProgramId,
       storage |-> Resize(WideAdd(WideMul(to_le_bytes(MIN_STORAGE_PER_NODE), k * n), d), 8),
       redundancy |-> r, nodes |-> n, block_size |-> b] :
      k \in 0..MaxMiBPerNode, d \in {0, 100}, r \in {100, 150}, n \in {1, 2},
      b \in {HugeBlockSize, -MIN_STORAGE_PER_NODE} }

FacadeArgs ==
    { [magic |-> m, owner |-> TestOwner, program_id |-> TestProgramId,
       storage |-> to_le_bytes(s), redundancy |-> 100, nodes |-> n, block_size |-> 1216] :
      m \in {"Shared", "Private"}, s \in {100, 5000}, n \in {1, 25} }

NewSuperBlock(a, checks) ==
    SuperBlock_new(a.magic, a.owner, a.program_id, a.storage, a.redundancy, a.nodes,
                   a.block_size, checks)

\* the Private shard an earlier RDFS::new with the same program id left
PriorShard ==
    LET sb == SuperBlock_new("Private", TestOwner, TestProgramId, to_le_bytes(PriorStorage),
                             100, 1, 1216, FALSE).sb
    IN  [exists |-> TRUE,
         bytes |-> SuperBlock_to_bytes(sb) \o AddressesBlock_to_bytes(ZeroAddresses(sb))]

\* what the path may hold before RDFS::new: nothing, an earlier shard, a
\* short file of other content, or a file longer than the shard that is
\* about to be created
PriorFiles(a) ==
    { NoFile,
      PriorShard,
      [exists |-> TRUE, bytes |-> Fill(238, PriorShort)],
      [exists |-> TRUE, bytes |-> Fill(238, NewSuperBlock(a, FALSE).sb.node_storage + PriorExtra)] }

PointerInputs(sb) ==
    { 0, sb.data_pointer - 1, sb.data_pointer, sb.data_pointer + 1,
      sb.data_pointer + sb.block_size, sb.inode_pointer,
      sb.data_pointer + sb.block_size * sb.total_blocks }

DataInputs(sb) ==
    { Fill(170, sb.block_size), <<170>>, Fill(170, sb.block_size + 1) }

(***************************************************************************)
(* State                                                                   *)
(***************************************************************************)
NoGeometry == [done |-> FALSE, panicked |-> FALSE, sb |-> NoSuperBlock]
NoArgs == [magic |-> "Shared", owner |-> <<>>, program_id |-> <<>>, storage |-> <<>>,
           redundancy |-> 0, nodes |-> 0, block_size |-> 0]
NoMount == [at |-> "never", err |-> "none", sb |-> NoSuperBlock]
NoCall == [op |-> "none", pointer |-> 0, len |-> 0, data_pointer |-> 0, block_size |-> 0,
           err |-> "none", data |-> <<>>, io |-> FALSE, changed |-> FALSE, writes |-> 0]
NoParse == [done |-> FALSE, err |-> "none", sb |-> NoSuperBlock]
NoTime == [ok |-> TRUE, t |-> Time0]
NoBlock == [kind |-> "none"]
NoIterator == [active |-> FALSE]

(***************************************************************************)
(* Spec: RDFS::new step by step over the shard file, mount_drive,          *)
(* read_block and write_block                                              *)
(***************************************************************************)
Init ==
    /\ overflow_checks \in BOOLEAN
    /\ args \in FacadeArgs
    /\ prior \in PriorFiles(args)
    /\ file = prior
    /\ pc = "start"
    /\ system = NoSuperBlock
    /\ mounted = NoMount
    /\ iterator = NoIterator
    /\ last = NoCall
    /\ clock = NoTime
    /\ geometry = NoGeometry
    /\ bitmaps_block = NoBitmapsBlock
    /\ buffer = <<>>
    /\ parsed = NoParse
    /\ block = NoBlock

Idle ==
    UNCHANGED <<overflow_checks, args, geometry, bitmaps_block, clock, prior, buffer, parsed, block, iterator>>

\* RDFS::new up to and including create_physical_file
CreateAllocate ==
    /\ pc = "start"
    /\ LET g == NewSuperBlock(args, overflow_checks)
       IN  IF g.panicked
           THEN /\ pc' = "panicked"
                /\ UNCHANGED <<system, file>>
           ELSE /\ system' = g.sb
                /\ file' = create_physical_file(file, g.sb.node_storage).file
                /\ pc' = "allocated"
    /\ UNCHANGED <<mounted, last>>
    /\ Idle

\* one write_range of RDFS::new: on an error `?` returns it
CreateWrite(from, to, start, data) ==
    /\ pc = from
    /\ LET r == write_range(file, start, data)
       IN  /\ file' = r.file
           /\ pc' = IF r.err = "Ok" THEN to ELSE "failed"
    /\ UNCHANGED <<system, mounted, last>>
    /\ Idle

CreateWriteSuperBlock ==
    CreateWrite("allocated", "super_written", 0, SuperBlock_to_bytes(system))

CreateWriteAddresses ==
    CreateWrite("super_written",
                IF system.magic = "Shared" THEN "addresses_written" ELSE "created",
                system.nodes_address_pointer, AddressesBlock_to_bytes(ZeroAddresses(system)))

CreateWriteBitmaps ==
    CreateWrite("addresses_written", "bitmaps_written",
                system.bitmaps_pointer, BitmapsBlock_to_bytes(RootBitmaps(system, clock)))

CreateWriteRootInode ==
    CreateWrite("bitmaps_written", "created",
                system.inode_pointer, InodeDir_to_bytes(RootInode(system, clock), system.block_size))

\* RDFS::mount_drive on the path, at any moment
MountDrive ==
    /\ mounted' = [at |-> pc] @@ mount_drive(file)
    /\ UNCHANGED <<file, pc, system, last>>
    /\ Idle

\* the super blocks of the RDFS handles that exist: the one RDFS::new
\* returned and the one the latest mount_drive returned
Handles ==
    (IF pc = "created" THEN {system} ELSE {})
    \cup (IF mounted.err = "Ok" THEN {mounted.sb} ELSE {})

ReadBlock ==
    /\ \E sb \in Handles : \E p \in PointerInputs(sb) :
         LET r == read_block(sb, file, p)
         IN  last' = [op |-> "read_block", pointer |-> p, len |-> 0,
                      data_pointer |-> sb.data_pointer, block_size |-> sb.block_size,
                      err |-> r.err, data |-> r.data, io |-> r.io, changed |-> FALSE,
                      writes |-> last.writes]
    /\ UNCHANGED <<file, pc, system, mounted>>
    /\ Idle

WriteBlock ==
    /\ last.writes < MaxWrites
    /\ \E sb \in Handles : \E p \in PointerInputs(sb) : \E d \in DataInputs(sb) :
         LET r == write_block(sb, file, p, d)
         IN  /\ file' = r.file
             /\ last' = [op |-> "write_block", pointer |-> p, len |-> Len(d),
                         data_pointer |-> sb.data_pointer, block_size |-> sb.block_size,
                         err |-> r.err, data |-> <<>>, io |-> r.io,
                         changed |-> (r.file # file),
                         writes |-> last.writes + (IF r.io THEN 1 ELSE 0)]
    /\ UNCHANGED <<pc, system, mounted>>
    /\ Idle

Next ==
    \/ CreateAllocate
    \/ CreateWriteSuperBlock
    \/ CreateWriteAddresses
    \/ CreateWriteBitmaps
    \/ CreateWriteRootInode
    \/ MountDrive
    \/ ReadBlock
    \/ WriteBlock

Spec == Init /\ [][Next]_vars

(***************************************************************************)
(* SpecBitmap: BitmapsBlock::new for every block count up to the bound,    *)
(* then any sequence of set_bit and clear_bit                              *)
(***************************************************************************)
\* block counts handed to BitmapsBlock::new: none, below one byte, whole
\* bytes, and counts that 8 does not divide
TotalBlocksInputs == { 0, 1, 7, 8, 9, MaxTotalBlocks - 1, MaxTotalBlocks }

\* bit indices: the ends of the first byte, the start of the second, the
\* last bit and the first index past it
BitInputs == { 0, 1, 7, 8, 9, MaxTotalBlocks - 1, MaxTotalBlocks }

BitmapInit ==
    /\ bitmaps_block \in { BitmapsBlock_new(tb, Time0) : tb \in TotalBlocksInputs }
    /\ clock = NoTime
    /\ overflow_checks = FALSE
    /\ args = NoArgs
    /\ geometry = NoGeometry
    /\ prior = NoFile
    /\ file = NoFile
    /\ pc = "start"
    /\ system = NoSuperBlock
    /\ mounted = NoMount
    /\ iterator = NoIterator
    /\ last = NoCall
    /\ buffer = <<>>
    /\ parsed = NoParse
    /\ block = NoBlock

\* what current_time_as_u64 may return at a mutation
TimeReadings == [ok : BOOLEAN, t : {Time1}]

BitmapIdle ==
    UNCHANGED <<overflow_checks, args, geometry, prior, file, pc, system, mounted, last, buffer,
                parsed, block, iterator>>

SetBit ==
    /\ \E i \in BitInputs : \E time \in TimeReadings :
         /\ bitmaps_block' = set_bit(bitmaps_block, i, time)
         /\ clock' = time
    /\ BitmapIdle

ClearBit ==
    /\ \E i \in BitInputs : \E time \in TimeReadings :
         /\ bitmaps_block' = clear_bit(bitmaps_block, i, time)
         /\ clock' = time
    /\ BitmapIdle

BitmapNext ==
    \/ SetBit
    \/ ClearBit

SpecBitmap == BitmapInit /\ [][BitmapNext]_vars

(***************************************************************************)
(* SpecGeometry: SuperBlock::new over a grid of parameters, in both build  *)
(* profiles                                                                *)
(***************************************************************************)
GeometryInit ==
    /\ args \in GeometryArgs
    /\ overflow_checks \in BOOLEAN
    /\ geometry = NoGeometry
    /\ bitmaps_block = NoBitmapsBlock
    /\ clock = NoTime
    /\ prior = NoFile
    /\ file = NoFile
    /\ pc = "start"
    /\ system = NoSuperBlock
    /\ mounted = NoMount
    /\ iterator = NoIterator
    /\ last = NoCall
    /\ buffer = <<>>
    /\ parsed = NoParse
    /\ block = NoBlock

ComputeGeometry ==
    /\ ~geometry.done
    /\ geometry' = [done |-> TRUE] @@ NewSuperBlock(args, overflow_checks)
    /\ UNCHANGED <<overflow_checks, args, bitmaps_block, clock, prior, file, pc, system, mounted,
                   last, buffer, parsed, block, iterator>>

GeometryNext == ComputeGeometry

SpecGeometry == GeometryInit /\ [][GeometryNext]_vars

(***************************************************************************)
(* SpecParse: SuperBlock::from_bytes over buffers of several lengths,      *)
(* magic words and bodies                                                  *)
(***************************************************************************)
\* the eight bytes a buffer may start with: the two magic words, and words
\* that differ from them in the last byte, in the first byte, or everywhere
MagicInputs ==
    { FS_MAGIC_SHARED, FS_MAGIC_PRIVATE,
      <<82, 68, 70, 83, 45, 83, 72, 83>>, <<83, 68, 70, 83, 45, 80, 82, 86>>,
      Fill(0, 8) }

\* the 248 bytes after the magic word: those of well-formed super blocks,
\* all zero (block_size 0), all 0xFF
BodyInputs ==
    { Slice(SuperBlock_to_bytes(NewSuperBlock(a, FALSE).sb), 8, SB_SIZE) : a \in FacadeArgs }
    \cup { Fill(0, SB_SIZE - 8), Fill(255, SB_SIZE - 8) }

LengthInputs == { 0, 7, SB_SIZE - 1, SB_SIZE, SB_SIZE + 1 }

SuperBlockBuffers ==
    { Resize(m \o b, n) : m \in MagicInputs, b \in BodyInputs, n \in LengthInputs }

ParseInit ==
    /\ buffer \in SuperBlockBuffers
    /\ parsed = NoParse
    /\ block = NoBlock
    /\ overflow_checks = FALSE
    /\ args = NoArgs
    /\ geometry = NoGeometry
    /\ bitmaps_block = NoBitmapsBlock
    /\ clock = NoTime
    /\ prior = NoFile
    /\ file = NoFile
    /\ pc = "start"
    /\ system = NoSuperBlock
    /\ mounted = NoMount
    /\ iterator = NoIterator
    /\ last = NoCall

ParseSuperBlock ==
    /\ ~parsed.done
    /\ parsed' = [done |-> TRUE] @@ SuperBlock_from_bytes(buffer)
    /\ UNCHANGED <<overflow_checks, args, geometry, bitmaps_block, clock, prior, file, pc,
                   system, mounted, last, buffer, block, iterator>>

ParseNext == ParseSuperBlock

SpecParse == ParseInit /\ [][ParseNext]_vars

(***************************************************************************)
(* SpecMetadata: a drive RDFS::new returned, then read_nodes_addresses,    *)
(* read_bitmaps, write_nodes_addresses and write_bitmaps in any order      *)
(***************************************************************************)
\* RDFS::new as one call: the super block, the file it leaves and its result
RDFS_new(a, f, time, checks) ==
    LET g == NewSuperBlock(a, checks)
        sb == g.sb
        f0 == create_physical_file(f, sb.node_storage).file
        w1 == write_range(f0, 0, SuperBlock_to_bytes(sb))
        w2 == write_range(w1.file, sb.nodes_address_pointer,
                          AddressesBlock_to_bytes(ZeroAddresses(sb)))
        w3 == write_range(w2.file, sb.bitmaps_pointer,
                          BitmapsBlock_to_bytes(RootBitmaps(sb, time)))
        w4 == write_range(w3.file, sb.inode_pointer,
                          InodeDir_to_bytes(RootInode(sb, time), sb.block_size))
    IN  IF g.panicked THEN [err |-> "panic", file |-> f, sb |-> NoSuperBlock]
        ELSE IF w1.err # "Ok" THEN [err |-> w1.err, file |-> w1.file, sb |-> NoSuperBlock]
        ELSE IF w2.err # "Ok" THEN [err |-> w2.err, file |-> w2.file, sb |-> NoSuperBlock]
        ELSE IF a.magic = "Private" THEN [err |-> "Ok", file |-> w2.file, sb |-> sb]
        ELSE IF w3.err # "Ok" THEN [err |-> w3.err, file |-> w3.file, sb |-> NoSuperBlock]
        ELSE IF w4.err # "Ok" THEN [err |-> w4.err, file |-> w4.file, sb |-> NoSuperBlock]
        ELSE [err |-> "Ok", file |-> w4.file, sb |-> sb]

\* the 8 bytes at offset `at` of data replaced by `field`
WithField(data, at, field) ==
    SubSeq(data, 1, at) \o field \o SubSeq(data, at + 9, Len(data))

\* buffers handed to write_bitmaps on a drive whose super block is sb: the
\* stored bitmap, fresh bitmaps of the drive, and bitmaps that are wrong in
\* one respect each (size, total_blocks, declared length, bit field length)
BitmapsInputs(sb, f) ==
    LET fresh == BitmapsBlock_new(sb.total_blocks, Time1)
        bytes == BitmapsBlock_to_bytes(fresh)
        stored == read_bitmaps(sb, f)
    IN  (IF stored.err = "Ok" THEN {stored.data} ELSE {})
        \cup { bytes,
               BitmapsBlock_to_bytes(set_bit(fresh, 0, [ok |-> TRUE, t |-> Time1])),
               <<>>,
               bytes \o <<0>>,
               BitmapsBlock_to_bytes([fresh EXCEPT !.total_blocks = @ + 8]),
               BitmapsBlock_to_bytes([fresh EXCEPT !.bit_field = Fill(0, sb.total_blocks)]),
               WithField(bytes, 24, to_le_bytes(Len(fresh.bit_field) + 1)),
               WithField(bytes, 24, Fill(255, 8)) }

\* buffers handed to write_nodes_addresses: the stored block, a block of
\* `nodes` other addresses, and blocks that are wrong in size or in the
\* declared length (by one, and by 2^59)
AddressesInputs(sb, f) ==
    LET bytes == AddressesBlock_to_bytes(
                     AddressesBlock_new([i \in 1..sb.nodes |-> Fill(17, PK_SIZE)],
                                        Fill(3, SIG_SIZE)))
        stored == read_nodes_addresses(sb, f)
    IN  (IF stored.err = "Ok" THEN {stored.data} ELSE {})
        \cup { bytes,
               <<>>,
               SubSeq(bytes, 1, Len(bytes) - 1),
               bytes \o <<0>>,
               WithField(bytes, 0, to_le_bytes(sb.nodes + 1)),
               WithField(bytes, 0, SubSeq(to_le_bytes(sb.nodes), 1, 7) \o <<8>>) }

MetadataInit ==
    /\ overflow_checks \in BOOLEAN
    /\ args \in FacadeArgs
    /\ prior \in PriorFiles(args)
    /\ clock = NoTime
    /\ LET r == RDFS_new(args, prior, clock, overflow_checks)
       IN  /\ r.err = "Ok"
           /\ file = r.file
           /\ system = r.sb
    /\ pc = "created"
    /\ mounted = NoMount
    /\ iterator = NoIterator
    /\ last = NoCall
    /\ geometry = NoGeometry
    /\ bitmaps_block = NoBitmapsBlock
    /\ buffer = <<>>
    /\ parsed = NoParse
    /\ block = NoBlock

MetadataIdle ==
    UNCHANGED <<overflow_checks, args, geometry, bitmaps_block, clock, prior, pc, system, mounted,
                buffer, parsed, block, iterator>>

\* the record of a metadata call: its input, its result and the file before it
MetadataCall(op, input, err, output, io) ==
    [op |-> op, input |-> input, err |-> err, output |-> output, before |-> file,
     writes |-> last.writes + (IF io THEN 1 ELSE 0)]

ReadNodesAddresses ==
    /\ LET r == read_nodes_addresses(system, file)
       IN  last' = MetadataCall("read_nodes_addresses", <<>>, r.err, r.data, FALSE)
    /\ UNCHANGED file
    /\ MetadataIdle

ReadBitmaps ==
    /\ LET r == read_bitmaps(system, file)
       IN  last' = MetadataCall("read_bitmaps", <<>>, r.err, r.data, FALSE)
    /\ UNCHANGED file
    /\ MetadataIdle

WriteNodesAddresses ==
    /\ last.writes < MaxMetadataWrites
    /\ \E d \in AddressesInputs(system, file) :
         LET r == write_nodes_addresses(system, file, d, overflow_checks)
         IN  /\ file' = r.file
             /\ last' = MetadataCall("write_nodes_addresses", d, r.err, <<>>, r.err = "Ok")
    /\ MetadataIdle

WriteBitmaps ==
    /\ last.writes < MaxMetadataWrites
    /\ \E d \in BitmapsInputs(system, file) :
         LET r == write_bitmaps(system, file, d, overflow_checks)
         IN  /\ file' = r.file
             /\ last' = MetadataCall("write_bitmaps", d, r.err, <<>>, r.err = "Ok")
    /\ MetadataIdle

MetadataNext ==
    \/ ReadNodesAddresses
    \/ ReadBitmaps
    \/ WriteNodesAddresses
    \/ WriteBitmaps

SpecMetadata == MetadataInit /\ [][MetadataNext]_vars

(***************************************************************************)
(* SpecCodec: a block value is serialised with to_bytes, the buffer may be *)
(* replaced by one with another declared content length (the bytes come    *)
(* from a file anyone can write), and the buffer is parsed with from_bytes *)
(***************************************************************************)
\* no signature yet, and a signature added with add_signature
SignatureInputs == { ZeroSignature, [i \in 1..SIG_SIZE |-> IF i % 8 = 1 THEN 9 ELSE 0] }

\* code points of a &str: ASCII, NUL, the replacement character, an emoji
\* and the largest scalar value
NameAlphabet == <<97, 0, 65533, 128077, 1114111>>

NameInputs ==
    { [i \in 1..n |-> NameAlphabet[((i * k) % Len(NameAlphabet)) + 1]] :
      n \in {0, 1, 2, NAME_SLOTS - 1, NAME_SLOTS, NAME_SLOTS + 1, LongName}, k \in 1..2 }

DirContents(n) ==
    [i \in 1..n |-> [pointer |-> 1000 * i, inode_type |-> IF i % 2 = 0 THEN "Dir" ELSE "File"]]

FileContents(n) == [i \in 1..n |-> [pointer |-> 1000 * i, blocks |-> i]]

\* bitmaps reachable by BitmapsBlock::new and up to `steps` set_bit / clear_bit
RECURSIVE ReachableBitmaps(_)
ReachableBitmaps(steps) ==
    IF steps = 0 THEN { BitmapsBlock_new(tb, Time0) : tb \in TotalBlocksInputs }
    ELSE LET before == ReachableBitmaps(steps - 1)
             now == [ok |-> TRUE, t |-> Time1]
         IN  before \cup { set_bit(b, i, now) : b \in before, i \in BitInputs }
                    \cup { clear_bit(b, i, now) : b \in before, i \in BitInputs }

\* the block values handed to to_bytes, each with its kind and block size
CodecBlocks ==
    { [kind |-> "SuperBlock", v |-> NewSuperBlock(a, FALSE).sb, block_size |-> 0] :
      a \in FacadeArgs \cup GeometryArgs }
    \cup { [kind |-> "AddressesBlock",
            v |-> AddressesBlock_new([i \in 1..n |-> Fill(i, PK_SIZE)], sig), block_size |-> 0] :
           n \in 0..MaxAddresses, sig \in SignatureInputs }
    \cup { [kind |-> "BitmapsBlock", v |-> b, block_size |-> 0] :
           b \in ReachableBitmaps(MaxBitmapSteps) }
    \cup { [kind |-> "InodeDir",
            v |-> [InodeDir_new(ContentName_new(name), t, 3, 8, DirContents(n), linked)
                   EXCEPT !.signature = sig],
            block_size |-> RESERVED_IB + CONTENT_SIZE * m] :
           name \in {RootName}, t \in {Time0}, linked \in {0, -1}, sig \in SignatureInputs,
           m \in {0, 1, MaxContent}, n \in 0..(MaxContent + 1) }
    \cup { [kind |-> "InodeFile",
            v |-> [InodeFile_new(ContentName_new(name), t, 3, 8, FileContents(n), linked)
                   EXCEPT !.signature = sig],
            block_size |-> RESERVED_IB + CONTENT_SIZE * m] :
           name \in {RootName}, t \in {Time0}, linked \in {0, -1}, sig \in SignatureInputs,
           m \in {0, 1, MaxContent}, n \in 0..(MaxContent + 1) }
    \cup { [kind |-> "InodeLinkedDir",
            v |-> [InodeLinked_new(DirContents(n), linked) EXCEPT !.signature = sig],
            block_size |-> RESERVED_LIB + CONTENT_SIZE * m] :
           linked \in {0, -1}, sig \in SignatureInputs,
           m \in {0, 1, MaxContent}, n \in 0..(MaxContent + 1) }
    \cup { [kind |-> "InodeLinkedFile",
            v |-> [InodeLinked_new(FileContents(n), linked) EXCEPT !.signature = sig],
            block_size |-> RESERVED_LIB + CONTENT_SIZE * m] :
           linked \in {0, -1}, sig \in SignatureInputs,
           m \in {0, 1, MaxContent}, n \in 0..(MaxContent + 1) }
    \cup { [kind |-> "DataBlock",
            v |-> [DataBlock_new(number, Time1, Fill(171, n)) EXCEPT !.signature = sig],
            block_size |-> RESERVED_DB + m] :
           number \in {0, 5, -1}, sig \in SignatureInputs,
           m \in {-8, 0, 8, MaxPayload}, n \in {0, 1, 8, MaxPayload, MaxPayload + 1} }
    \cup { [kind |-> "ContentName", v |-> [s |-> name], block_size |-> 0] : name \in NameInputs }

InodeKinds == {"InodeDir", "InodeFile", "InodeLinkedDir", "InodeLinkedFile"}

\* offset of the declared content length and size of the fixed part of an inode block
LengthOffset(kind) == IF kind \in {"InodeDir", "InodeFile"} THEN 1064 ELSE 8
Prefix(kind) == IF kind \in {"InodeDir", "InodeFile"} THEN RESERVED_IB ELSE RESERVED_LIB

\* to_bytes of the block's kind
Encoded(b) ==
    CASE b.kind = "SuperBlock" -> SuperBlock_to_bytes(b.v)
      [] b.kind = "AddressesBlock" -> AddressesBlock_to_bytes(b.v)
      [] b.kind = "BitmapsBlock" -> BitmapsBlock_to_bytes(b.v)
      [] b.kind = "InodeDir" -> InodeDir_to_bytes(b.v, b.block_size)
      [] b.kind = "InodeFile" -> InodeFile_to_bytes(b.v, b.block_size)
      [] b.kind = "InodeLinkedDir" -> InodeLinkedDir_to_bytes(b.v, b.block_size)
      [] b.kind = "InodeLinkedFile" -> InodeLinkedFile_to_bytes(b.v, b.block_size)
      [] b.kind = "DataBlock" -> DataBlock_to_bytes(b.v, b.block_size)
      [] b.kind = "ContentName" -> ContentName_to_bytes(ContentName_new(b.v.s))

\* from_bytes of the block's kind; the metadata blocks are parsed with the
\* length of the buffer as their size, a name is parsed and rendered
Decoded(b, data, checks) ==
    CASE b.kind = "SuperBlock" ->
           LET r == SuperBlock_from_bytes(data) IN [err |-> r.err, v |-> r.sb]
      [] b.kind = "AddressesBlock" ->
           LET r == AddressesBlock_from_bytes(data, Len(data), checks) IN [err |-> r.err, v |-> r.a]
      [] b.kind = "BitmapsBlock" ->
           LET r == BitmapsBlock_from_bytes(data, Len(data), checks) IN [err |-> r.err, v |-> r.b]
      [] b.kind = "InodeDir" ->
           LET r == InodeDir_from_bytes(data, b.block_size, checks) IN [err |-> r.err, v |-> r.inode]
      [] b.kind = "InodeFile" ->
           LET r == InodeFile_from_bytes(data, b.block_size, checks) IN [err |-> r.err, v |-> r.inode]
      [] b.kind = "InodeLinkedDir" ->
           LET r == InodeLinkedDir_from_bytes(data, b.block_size, checks)
           IN  [err |-> r.err, v |-> r.inode]
      [] b.kind = "InodeLinkedFile" ->
           LET r == InodeLinkedFile_from_bytes(data, b.block_size, checks)
           IN  [err |-> r.err, v |-> r.inode]
      [] b.kind = "DataBlock" ->
           LET r == DataBlock_from_bytes(data, b.block_size, checks) IN [err |-> r.err, v |-> r.d]
      [] b.kind = "ContentName" ->
           LET c == ContentName_from_bytes(data)
               r == as_string(c)
           IN  [err |-> r.err, v |-> [name |-> c, rendered |-> r.s]]

\* declared content lengths written over the one to_bytes stored: one above
\* the number of entries the block holds, the number of entries that reaches
\* the end of the buffer, one more, the number of bytes after the fixed
\* part, one more
TamperLengths(b) ==
    LET max == (b.block_size - Prefix(b.kind)) \div CONTENT_SIZE
    IN  { max + 1, max + 4, max + 5,
          b.block_size - Prefix(b.kind), b.block_size - Prefix(b.kind) + 1 }

CodecInit ==
    /\ overflow_checks \in BOOLEAN
    /\ block \in { [tampered |-> FALSE] @@ b : b \in CodecBlocks }
    /\ pc = "start"
    /\ buffer = <<>>
    /\ parsed = NoParse
    /\ args = NoArgs
    /\ geometry = NoGeometry
    /\ bitmaps_block = NoBitmapsBlock
    /\ clock = NoTime
    /\ prior = NoFile
    /\ file = NoFile
    /\ system = NoSuperBlock
    /\ mounted = NoMount
    /\ iterator = NoIterator
    /\ last = NoCall

CodecIdle ==
    UNCHANGED <<overflow_checks, args, geometry, bitmaps_block, clock, prior, file, system,
                mounted, last, iterator>>

Encode ==
    /\ pc = "start"
    /\ buffer' = Encoded(block)
    /\ pc' = "encoded"
    /\ UNCHANGED <<block, parsed>>
    /\ CodecIdle

Tamper ==
    /\ pc = "encoded"
    /\ block.kind \in InodeKinds
    /\ block.v.signature # ZeroSignature
    /\ \E length \in TamperLengths(block) :
         buffer' = WithField(buffer, LengthOffset(block.kind), to_le_bytes(length))
    /\ block' = [block EXCEPT !.tampered = TRUE]
    /\ UNCHANGED <<pc, parsed>>
    /\ CodecIdle

Decode ==
    /\ pc = "encoded"
    /\ parsed' = [done |-> TRUE] @@ Decoded(block, buffer, overflow_checks)
    /\ pc' = "decoded"
    /\ UNCHANGED <<block, buffer>>
    /\ CodecIdle

\* DataBlock::from_bytes on a buffer that lost its last byte
DecodeShort ==
    /\ pc = "encoded"
    /\ block.kind = "DataBlock"
    /\ parsed' = [done |-> TRUE]
                  @@ Decoded(block, SubSeq(buffer, 1, Len(buffer) - 1), overflow_checks)
    /\ pc' = "decoded_short"
    /\ UNCHANGED <<block, buffer>>
    /\ CodecIdle

CodecNext ==
    \/ Encode
    \/ Tamper
    \/ Decode
    \/ DecodeShort

SpecCodec == CodecInit /\ [][CodecNext]_vars

(***************************************************************************)
(* SpecShard: on a drive RDFS::new created, the writers write_block,       *)
(* write_nodes_addresses and write_bitmaps, and mount_drive                *)
(***************************************************************************)
ShardInit ==
    /\ overflow_checks \in BOOLEAN
    /\ args \in FacadeArgs
    /\ prior = NoFile
    /\ clock = NoTime
    /\ LET r == RDFS_new(args, prior, clock, overflow_checks)
       IN  /\ r.err = "Ok"
           /\ file = r.file
           /\ system = r.sb
    /\ pc = "created"
    /\ mounted = NoMount
    /\ iterator = NoIterator
    /\ last = NoCall
    /\ geometry = NoGeometry
    /\ bitmaps_block = NoBitmapsBlock
    /\ buffer = <<>>
    /\ parsed = NoParse
    /\ block = NoBlock

ShardNext ==
    \/ MountDrive
    \/ WriteBlock
    \/ WriteNodesAddresses
    \/ WriteBitmaps

SpecShard == ShardInit /\ [][ShardNext]_vars

(***************************************************************************)
(* SpecIterator: on a drive RDFS::new created, an iterator of read_blocks  *)
(* that is advanced while write_block is called                            *)
(***************************************************************************)
\* RDFS::read_blocks(ranges) through the handle of RDFS::new: two blocks in
\* a row, two ranges out of address order, a range that runs past the end
\* of the file before a readable one, a range of no blocks, a pointer that
\* is not a block of the data region, and a pointer just below 2^64.
\* snapshot keeps the file as it was at the call.
ReadBlocks ==
    /\ LET dp == system.data_pointer
           bs == system.block_size
       IN  \E ranges \in
             { <<[pointer |-> dp, blocks |-> 2]>>,
               <<[pointer |-> dp + bs, blocks |-> 1], [pointer |-> dp, blocks |-> 1]>>,
               <<[pointer |-> Max(system.node_storage - bs, 0), blocks |-> 2],
                 [pointer |-> dp, blocks |-> 1]>>,
               <<[pointer |-> dp, blocks |-> 0], [pointer |-> 0, blocks |-> 1]>>,
               <<[pointer |-> HighPointer, blocks |-> 1], [pointer |-> dp, blocks |-> 1]>> } :
             iterator' = [snapshot |-> file] @@ read_blocks(system, ranges)
    /\ UNCHANGED <<overflow_checks, args, geometry, bitmaps_block, clock, prior, file, pc,
                   system, mounted, last, buffer, parsed, block>>

\* next() on the iterator
AdvanceIterator ==
    /\ iterator.active
    /\ ~iterator.panicked
    /\ iterator.range <= Len(iterator.ranges)
    /\ iterator' = iterator_next(iterator, file, overflow_checks)
    /\ UNCHANGED <<overflow_checks, args, geometry, bitmaps_block, clock, prior, file, pc,
                   system, mounted, last, buffer, parsed, block>>

IteratorNext ==
    \/ ReadBlocks
    \/ AdvanceIterator
    \/ WriteBlock

SpecIterator == ShardInit /\ [][IteratorNext]_vars

(***************************************************************************)
(* SpecSignature: a buffer is signed in place, a byte of it may change     *)
(* afterwards, and the buffer is verified under some public key            *)
(***************************************************************************)
\* buffers of every length around the 64-byte trailing field, with a key
SignatureInit ==
    /\ \E n \in {0, 1, SIG_SIZE - 1, SIG_SIZE, SIG_SIZE + 1, SIG_SIZE + MaxMessage} :
       \E b \in {0, 5} : \E k \in 1..MaxKeys :
         /\ buffer = Fill(b, n)
         /\ block = [kind |-> "Envelope", private_key |-> Fill(k, PK_SIZE),
                     before |-> Fill(b, n), stage |-> "unsigned", changed_at |-> 0]
    /\ pc = "start"
    /\ parsed = [done |-> FALSE, ok |-> FALSE, public_key |-> <<>>]
    /\ overflow_checks = FALSE
    /\ args = NoArgs
    /\ geometry = NoGeometry
    /\ bitmaps_block = NoBitmapsBlock
    /\ clock = NoTime
    /\ prior = NoFile
    /\ file = NoFile
    /\ system = NoSuperBlock
    /\ mounted = NoMount
    /\ iterator = NoIterator
    /\ last = NoCall

\* sign_bytes(private_key, &mut buffer)
SignBytes ==
    /\ pc = "start"
    /\ buffer' = sign_bytes(block.private_key, buffer)
    /\ block' = [block EXCEPT !.stage = "signed"]
    /\ pc' = "signed"
    /\ UNCHANGED <<overflow_checks, args, geometry, bitmaps_block, clock, prior, file, system,
                   mounted, last, parsed, iterator>>

\* one byte of the signed buffer changes
ChangeByte ==
    /\ pc = "signed"
    /\ \E i \in 1..Len(buffer) :
         /\ buffer' = [buffer EXCEPT ![i] = (buffer[i] + 1) % 256]
         /\ block' = [block EXCEPT !.stage = "changed", !.changed_at = i]
    /\ pc' = "changed"
    /\ UNCHANGED <<overflow_checks, args, geometry, bitmaps_block, clock, prior, file, system,
                   mounted, last, parsed, iterator>>

\* verify_bytes(public_key, &buffer) under the signer's public key, another
\* signer's, or bytes that are no public key
VerifyBytes ==
    /\ pc \in {"start", "signed", "changed"}
    /\ \E pk \in { pk_of(Fill(k, PK_SIZE)) : k \in 1..MaxKeys } \cup { Fill(255, PK_SIZE) } :
         parsed' = [done |-> TRUE, ok |-> verify_bytes(pk, buffer), public_key |-> pk]
    /\ pc' = "verified"
    /\ UNCHANGED <<overflow_checks, args, geometry, bitmaps_block, clock, prior, file, system,
                   mounted, last, buffer, block, iterator>>

SignatureNext ==
    \/ SignBytes
    \/ ChangeByte
    \/ VerifyBytes

SpecSignature == SignatureInit /\ [][SignatureNext]_vars

(***************************************************************************)
(* Properties                                                              *)
(***************************************************************************)
\* C1 (SpecBitmap): from BitmapsBlock::new(total_blocks, t) with any
\* total_blocks and after any sequence of set_bit and clear_bit,
\* free_blocks equals the number of zero bits of bit_field.
C1_FreeBlocksCountsZeroBits ==
    bitmaps_block.free_blocks = CountZeroBits(bitmaps_block.bit_field)

\* C2 (Spec): read_block and write_block answer PointerOutOfRange to a
\* pointer below data_pointer and InvalidPointerAlignment to a pointer at or
\* above it that is not a whole number of blocks past it; in both cases the
\* call touches no byte of the file and returns none.
C2_PointerChecks ==
    last.op \in {"read_block", "write_block"} =>
        /\ U64Lt(last.pointer, last.data_pointer) =>
               /\ last.err = "PointerOutOfRange"
               /\ ~last.io /\ ~last.changed /\ last.data = <<>>
        /\ ( /\ ~U64Lt(last.pointer, last.data_pointer)
             /\ last.block_size # 0
             /\ U64Mod(last.pointer - last.data_pointer, last.block_size) # 0 ) =>
               /\ last.err = "InvalidPointerAlignment"
               /\ ~last.io /\ ~last.changed /\ last.data = <<>>

C2_MisalignedReadRejected ==
    /\ last.op = "read_block"
    /\ last.pointer = last.data_pointer + 1
    /\ last.err = "InvalidPointerAlignment"

\* C3 (Spec): write_block rejects data whose length is not block_size and
\* leaves the file as it was.
C3_WriteNeedsFullBlock ==
    (last.op = "write_block" /\ last.len # last.block_size) =>
        (last.err # "Ok" /\ ~last.changed)

\* C4 (SpecGeometry): every super block SuperBlock::new returns closes its
\* geometry: nodes_address_size is 72 + 32 * nodes; in the Shared layout
\* node_storage is 256 + nodes_address_size + bitmaps_size +
\* total_blocks * block_size and 8 divides total_blocks; in the Private
\* layout node_storage is 256 + nodes_address_size + total_blocks * block_size.
C4_GeometryClosure ==
    (geometry.done /\ ~geometry.panicked) =>
        LET sb == geometry.sb
        IN  /\ sb.nodes_address_size = 72 + 32 * sb.nodes
            /\ IF sb.magic = "Shared"
               THEN /\ sb.node_storage = 256 + sb.nodes_address_size + sb.bitmaps_size
                                         + sb.total_blocks * sb.block_size
                    /\ sb.total_blocks % 8 = 0
               ELSE sb.node_storage = 256 + sb.nodes_address_size
                                      + sb.total_blocks * sb.block_size

C4_AcceptedGeometryComputed ==
    /\ geometry.done /\ ~geometry.panicked
    /\ Accepted(args)
    /\ geometry.sb.total_blocks > 8

\* C5 (SpecGeometry): for Shared parameters the authors' preconditions
\* accept, SuperBlock::new returns, total_blocks is a positive multiple of
\* 8 and inode_pointer is data_pointer + block_size * (total_blocks - 1),
\* not below data_pointer.
C5_AcceptedSharedHasBlocks ==
    (geometry.done /\ args.magic = "Shared" /\ Accepted(args)) =>
        /\ ~geometry.panicked
        /\ geometry.sb.total_blocks > 0
        /\ geometry.sb.total_blocks % 8 = 0
        /\ geometry.sb.inode_pointer
             = geometry.sb.data_pointer
               + geometry.sb.block_size * (geometry.sb.total_blocks - 1)
        /\ geometry.sb.inode_pointer >= geometry.sb.data_pointer

\* C6 (Spec): once RDFS::new has returned Ok, and before any block is
\* written, the file is exactly node_storage bytes long, whatever the path
\* held before.
C6_FileLengthIsNodeStorage ==
    (pc = "created" /\ last.writes = 0) => Len(file.bytes) = system.node_storage

\* the bitmap stored in the file, through read_bitmaps and BitmapsBlock::from_bytes
StoredBitmaps(sb, f) ==
    LET r == read_bitmaps(sb, f)
    IN  IF r.err # "Ok" THEN [err |-> r.err, b |-> NoBitmapsBlock]
        ELSE BitmapsBlock_from_bytes(r.data, sb.bitmaps_size, FALSE)

\* the root inode stored in the file, through read_block and InodeDir::from_bytes
StoredRootInode(sb, f, checks) ==
    LET r == read_block(sb, f, sb.inode_pointer)
    IN  IF r.err # "Ok" THEN [err |-> r.err, inode |-> NoInodeDir]
        ELSE InodeDir_from_bytes(r.data, sb.block_size, checks)

\* C7 (Spec): right after a Shared RDFS::new has returned Ok, the bitmap in
\* the file has bit total_blocks - 1 set and no other, free_blocks is
\* total_blocks - 1, that index is (inode_pointer - data_pointer) /
\* block_size, and the block at inode_pointer is a directory inode named
\* "./" with no content and linked 0.
C7_FreshSharedShard ==
    (pc = "created" /\ system.magic = "Shared" /\ last.writes = 0) =>
        LET bm == StoredBitmaps(system, file)
            root == StoredRootInode(system, file, overflow_checks)
        IN  /\ bm.err = "Ok"
            /\ bm.b.total_blocks = system.total_blocks
            /\ \A i \in 0..(8 * Len(bm.b.bit_field)) :
                   get_bit(bm.b, i) = (i = system.total_blocks - 1)
            /\ get_bit(bm.b, system.total_blocks - 1)
            /\ bm.b.free_blocks = system.total_blocks - 1
            /\ system.inode_pointer
                 = system.data_pointer + system.block_size * (system.total_blocks - 1)
            /\ system.inode_pointer >= system.data_pointer
            /\ root.err = "Ok"
            /\ as_string(root.inode.name) = [err |-> "Ok", s |-> RootName]
            /\ root.inode.content = <<>>
            /\ root.inode.linked = 0

\* C8 (Spec): mount_drive on the file of a shard RDFS::new has returned
\* succeeds with a super block equal, field by field, to the one RDFS::new
\* returned.
C8_MountReturnsCreatedSuperBlock ==
    mounted.at = "created" => (mounted.err = "Ok" /\ mounted.sb = system)

\* positions of RDFS::new after a non-empty proper prefix of its file operations
PartialCreate == {"allocated", "super_written", "addresses_written", "bitmaps_written"}

\* C9 as stated (Spec): mount_drive on the file of a create interrupted after
\* a proper prefix of its steps fails with InvalidMagicWord.
C9_PartialCreateFailsMagicCheck ==
    mounted.at \in PartialCreate => mounted.err = "InvalidMagicWord"

\* does the file begin with one of the two magic words?
StartsWithMagic(f) ==
    /\ f.exists
    /\ Len(f.bytes) >= 8
    /\ SubSeq(f.bytes, 1, 8) \in {FS_MAGIC_SHARED, FS_MAGIC_PRIVATE}

\* C9 amended (Spec): mount_drive on the file of a create interrupted right
\* after the preallocation fails with InvalidMagicWord when the path did not
\* already hold a file that begins with a magic word; interrupted after the
\* super block write or any later step short of the last, it succeeds and
\* returns the super block of the interrupted create.
C9_PartialCreateMount ==
    /\ (mounted.at = "allocated" /\ ~StartsWithMagic(prior)) =>
           mounted.err = "InvalidMagicWord"
    /\ mounted.at \in (PartialCreate \ {"allocated"}) =>
           (mounted.err = "Ok" /\ mounted.sb = system)

C9_MountedHalfCreatedShard ==
    /\ mounted.at = "bitmaps_written"
    /\ pc = "bitmaps_written"
    /\ mounted.err = "Ok"
    /\ ~StartsWithMagic(prior)

\* C10 (SpecParse): SuperBlock::from_bytes answers InvalidSuperBlockLength
\* to a buffer that is not 256 bytes long whatever it begins with,
\* InvalidMagicWord to a 256-byte buffer that begins with neither magic
\* word, and Ok to every other 256-byte buffer, decoding its fields as they
\* are.
C10_FromBytesChecks ==
    parsed.done =>
        /\ Len(buffer) # 256 => parsed.err = "InvalidSuperBlockLength"
        /\ ( /\ Len(buffer) = 256
             /\ SubSeq(buffer, 1, 8) \notin {FS_MAGIC_SHARED, FS_MAGIC_PRIVATE} ) =>
               parsed.err = "InvalidMagicWord"
        /\ ( /\ Len(buffer) = 256
             /\ SubSeq(buffer, 1, 8) \in {FS_MAGIC_SHARED, FS_MAGIC_PRIVATE} ) =>
               /\ parsed.err = "Ok"
               /\ SuperBlock_to_bytes(parsed.sb) = buffer

C10_ZeroGeometryAccepted ==
    /\ parsed.done
    /\ parsed.err = "Ok"
    /\ parsed.sb.block_size = 0
    /\ parsed.sb.total_blocks = 0

\* C11 (SpecMetadata): on a Private drive read_bitmaps and write_bitmaps,
\* whatever the data, return NoBitmapsPrivateRDFS and leave the file as it was.
C11_PrivateHasNoBitmaps ==
    (last.op \in {"read_bitmaps", "write_bitmaps"} /\ system.magic = "Private")
        => (last.err = "NoBitmapsPrivateRDFS" /\ file = last.before)

\* a Private drive was handed a non-empty buffer and an empty one
C11_PrivateWriteRefused ==
    /\ system.magic = "Private"
    /\ last.op = "write_bitmaps"
    /\ last.input # <<>>
    /\ last.err = "NoBitmapsPrivateRDFS"

\* C12 (SpecMetadata): write_nodes_addresses(data) writes data at
\* nodes_address_pointer exactly when data has nodes_address_size bytes, its
\* declared length len satisfies 72 + 32 * len = nodes_address_size and len
\* equals nodes; otherwise it returns InvalidAddressBlockLength or
\* InvalidEncodedAddressBlockLength and the file is as it was.
C12_AddressesWriteChecks ==
    last.op = "write_nodes_addresses" =>
        LET d == last.input
            size_ok == Len(d) = system.nodes_address_size
            low == from_le_bytes(SubSeq(d, 1, 7) \o <<d[8] % 8>>)
            declared_ok == /\ size_ok
                           /\ d[8] < 8
                           /\ RESERVED_AB + PK_SIZE * low = system.nodes_address_size
                           /\ low = system.nodes
        IN  IF declared_ok
            THEN /\ last.err = "Ok"
                 /\ file.bytes = WriteAt(last.before.bytes, system.nodes_address_pointer, d)
            ELSE /\ last.err = IF size_ok THEN "InvalidEncodedAddressBlockLength"
                               ELSE "InvalidAddressBlockLength"
                 /\ file = last.before

\* C13 (SpecMetadata): on a Shared drive every well-formed bitmap of the
\* drive (bitmaps_size bytes, the drive's total_blocks, bit_field of
\* total_blocks / 8 bytes), in particular the one read_bitmaps returns right
\* after the create, is accepted by write_bitmaps and written at
\* bitmaps_pointer; InvalidBitmapsBlockLength is returned only for a buffer
\* of another size or a bitmap whose total_blocks or bit_field length does
\* not match the drive.
C13_BitmapsWriteChecks ==
    (last.op = "write_bitmaps" /\ system.magic = "Shared") =>
        LET d == last.input
            r == BitmapsBlock_from_bytes(d, system.bitmaps_size, FALSE)
            matches == /\ r.err = "Ok"
                       /\ r.b.total_blocks = system.total_blocks
                       /\ Len(r.b.bit_field) * 8 = system.total_blocks
        IN  /\ matches =>
                /\ last.err = "Ok"
                /\ file.bytes = WriteAt(last.before.bytes, system.bitmaps_pointer, d)
            /\ last.err = "InvalidBitmapsBlockLength" =>
                \/ Len(d) # system.bitmaps_size
                \/ (r.err = "Ok" /\ ~matches)

\* C14 (SpecCodec): the four inode from_bytes answer
\* InvalidEncodedInodeBlockLength to every block_size-long buffer whose
\* declared content length exceeds (block_size - prefix) / 16, so an
\* accepted inode never has more entries than that.
C14_DeclaredLengthBound ==
    (pc = "decoded" /\ block.kind \in InodeKinds /\ Len(buffer) = block.block_size) =>
        LET declared == from_le_bytes(Slice(buffer, LengthOffset(block.kind),
                                            LengthOffset(block.kind) + 8))
            max == (block.block_size - Prefix(block.kind)) \div CONTENT_SIZE
        IN  /\ declared > max => parsed.err = "InvalidEncodedInodeBlockLength"
            /\ parsed.err = "Ok" => Len(parsed.v.content) <= max

\* C15 (SpecCodec): every SuperBlock, every AddressesBlock and every
\* BitmapsBlock reachable by new, set_bit and clear_bit serialises to 256,
\* 72 + 32 * len and 96 + total_blocks / 8 bytes, and from_bytes on these
\* bytes, with their length as the size, succeeds with all fields equal.
C15_MetadataRoundTrip ==
    (pc = "decoded" /\ block.kind \in {"SuperBlock", "AddressesBlock", "BitmapsBlock"}) =>
        /\ parsed.err = "Ok"
        /\ parsed.v = block.v
        /\ Len(buffer) = CASE block.kind = "SuperBlock" -> SB_SIZE
                           [] block.kind = "AddressesBlock" ->
                                RESERVED_AB + PK_SIZE * Len(block.v.addresses)
                           [] block.kind = "BitmapsBlock" ->
                                RESERVED_BB + block.v.total_blocks \div 8

\* a bitmap with a bit set after its construction came back from its bytes
C15_MutatedBitmapDecoded ==
    /\ pc = "decoded"
    /\ block.kind = "BitmapsBlock"
    /\ block.v.last_modify = Time1
    /\ block.v.bit_field # <<>>
    /\ parsed.err = "Ok"

\* C16 (SpecCodec): for an InodeDir, InodeFile, InodeLinkedDir or
\* InodeLinkedFile with at most (block_size - prefix) / 16 content entries,
\* to_bytes(block_size) has exactly block_size bytes and from_bytes on them
\* returns a value equal on every field.
C16_InodeRoundTrip ==
    (/\ pc = "decoded"
     /\ block.kind \in InodeKinds
     /\ ~block.tampered
     /\ Len(block.v.content) <= (block.block_size - Prefix(block.kind)) \div CONTENT_SIZE) =>
        /\ Len(buffer) = block.block_size
        /\ parsed.err = "Ok"
        /\ parsed.v = block.v

\* a full, signed file inode came back from its bytes
C16_FullFileInodeDecoded ==
    /\ pc = "decoded"
    /\ block.kind = "InodeFile"
    /\ ~block.tampered
    /\ Len(block.v.content) = MaxContent
    /\ block.block_size = RESERVED_IB + CONTENT_SIZE * MaxContent
    /\ block.v.signature # ZeroSignature
    /\ parsed.err = "Ok"

\* C17 (SpecCodec): for a DataBlock with data.len <= block_size - 88,
\* to_bytes(block_size) has exactly block_size bytes and from_bytes on them
\* returns the same block_number, timestamp and signature and a data vector
\* of block_size - 88 bytes: the payload followed by zeros.
C17_DataBlockRoundTrip ==
    (/\ pc = "decoded"
     /\ block.kind = "DataBlock"
     /\ Len(block.v.data) <= block.block_size - RESERVED_DB) =>
        /\ Len(buffer) = block.block_size
        /\ parsed.err = "Ok"
        /\ parsed.v.block_number = block.v.block_number
        /\ parsed.v.timestamp = block.v.timestamp
        /\ parsed.v.signature = block.v.signature
        /\ Len(parsed.v.data) = block.block_size - RESERVED_DB
        /\ parsed.v.data = block.v.data \o Fill(0, block.block_size - RESERVED_DB - Len(block.v.data))

\* a payload shorter than the block came back padded
C17_PaddedPayloadDecoded ==
    /\ pc = "decoded"
    /\ block.kind = "DataBlock"
    /\ block.v.data # <<>>
    /\ Len(block.v.data) < block.block_size - RESERVED_DB
    /\ parsed.err = "Ok"
    /\ parsed.v.data # block.v.data

\* C20 (SpecCodec): for a string s of at most 255 code points,
\* ContentName::from_bytes(ContentName::new(s).to_bytes()) renders back to s
\* and the encoding has exactly 1024 bytes; for a longer s the constructed
\* name holds exactly the first 255 code points and length = 255.
C20_NameRoundTrip ==
    (pc = "decoded" /\ block.kind = "ContentName") =>
        LET s == block.v.s
            c == ContentName_new(s)
        IN  /\ Len(buffer) = 1024
            /\ Len(s) <= NAME_SLOTS => (parsed.err = "Ok" /\ parsed.v.rendered = s)
            /\ Len(s) > NAME_SLOTS =>
                /\ c.length = NAME_SLOTS
                /\ c.name = SubSeq(s, 1, NAME_SLOTS)
                /\ parsed.v.name = c

\* a name of exactly 255 code points came back whole
C20_FullNameDecoded ==
    /\ pc = "decoded"
    /\ block.kind = "ContentName"
    /\ Len(block.v.s) = NAME_SLOTS
    /\ parsed.v.rendered = block.v.s
    /\ parsed.v.rendered[NAME_SLOTS] # 0

\* C18 (SpecBitmap): in every bitmap state and for every index i, set_bit(i)
\* followed by set_bit(i) leaves the state (bit_field, free_blocks,
\* last_modify) the first set_bit(i) produced, whatever the clock reads at
\* either call; likewise for clear_bit(i).
C18_MutationIdempotent ==
    \A i \in BitInputs : \A first \in TimeReadings : \A second \in TimeReadings :
        /\ set_bit(set_bit(bitmaps_block, i, first), i, second)
               = set_bit(bitmaps_block, i, first)
        /\ clear_bit(clear_bit(bitmaps_block, i, first), i, second)
               = clear_bit(bitmaps_block, i, first)

\* a set_bit took effect while the clock could not be read: a later
\* set_bit of the same index finds the bit set and an older last_modify
C18_BitSetWithoutStamp ==
    /\ get_bit(bitmaps_block, 0)
    /\ bitmaps_block.last_modify = Time0
    /\ bitmaps_block.free_blocks = bitmaps_block.total_blocks - 1

\* C19 (SpecBitmap): for an index i at or beyond total_blocks get_bit(i) is
\* false and set_bit(i) / clear_bit(i) change nothing; for an index i below
\* total_blocks set_bit(i) makes get_bit(i) true and clear_bit(i) makes it
\* false, and neither changes get_bit(j) for j # i.
C19_BoundsSafe ==
    \A i \in BitInputs : \A time \in TimeReadings :
        LET set == set_bit(bitmaps_block, i, time)
            cleared == clear_bit(bitmaps_block, i, time)
        IN  IF i >= bitmaps_block.total_blocks
            THEN /\ ~get_bit(bitmaps_block, i)
                 /\ set = bitmaps_block
                 /\ cleared = bitmaps_block
            ELSE /\ get_bit(set, i)
                 /\ ~get_bit(cleared, i)
                 /\ \A j \in BitInputs \ {i} :
                        /\ get_bit(set, j) = get_bit(bitmaps_block, j)
                        /\ get_bit(cleared, j) = get_bit(bitmaps_block, j)

\* C23 (SpecCodec): the from_bytes of every block kind returns Ok or an
\* error value for every buffer and block size, and never aborts.
C23_ParsersTotal ==
    pc \in {"decoded", "decoded_short"} => parsed.err # "panic"

\* C26 (SpecCodec): for a DataBlock with data.len > block_size - 88,
\* to_bytes(block_size) returns exactly block_size bytes and from_bytes on
\* them fails with InvalidEncodedDataBlockLength; a buffer whose length is
\* not block_size fails with InvalidDataBlockLength.
C26_OversizePayloadRejected ==
    /\ (/\ pc = "decoded"
        /\ block.kind = "DataBlock"
        /\ Len(block.v.data) > block.block_size - RESERVED_DB) =>
           /\ Len(buffer) = block.block_size
           /\ Slice(buffer, 24, block.block_size - SIG_SIZE)
                  = SubSeq(block.v.data, 1, block.block_size - RESERVED_DB)
           /\ from_le_bytes(Slice(buffer, 16, 24)) = Len(block.v.data)
           /\ parsed.err = "InvalidEncodedDataBlockLength"
    /\ pc = "decoded_short" => parsed.err = "InvalidDataBlockLength"

\* C27 (Spec): on a created drive, a write_block through the handle RDFS::new
\* returned that answers Ok for data of block_size bytes leaves the length
\* of the shard file at node_storage.
C27_WritesStayInside ==
    [][(/\ pc = "created"
        /\ last'.op = "write_block"
        /\ last'.writes = last.writes + 1
        /\ last'.data_pointer = system.data_pointer
        /\ last'.block_size = system.block_size
        /\ last'.err = "Ok"
        /\ last'.len = system.block_size
        /\ Len(file.bytes) = system.node_storage)
       => Len(file'.bytes) = system.node_storage]_vars

\* C28 (Spec): after a write_block(p, d) through the handle of RDFS::new that
\* returns Ok, with d of block_size bytes and the block inside the data
\* region, read_block(p) returns d, and read_block(q) for every other
\* aligned block q, read_nodes_addresses and read_bitmaps return what they
\* returned before the write.
C28_ReadYourWrites ==
    [][\A d \in DataInputs(system) :
         (/\ pc = "created"
          /\ last'.op = "write_block"
          /\ last'.writes = last.writes + 1
          /\ last'.data_pointer = system.data_pointer
          /\ last'.block_size = system.block_size
          /\ last'.err = "Ok"
          /\ Len(d) = system.block_size
          /\ last'.len = Len(d)
          /\ file' = write_block(system, file, last'.pointer, d).file
          /\ last'.pointer + system.block_size
                <= system.data_pointer + system.total_blocks * system.block_size)
         => /\ read_block(system, file', last'.pointer)
                  = [err |-> "Ok", data |-> d, io |-> TRUE]
            /\ \A k \in 0..(system.total_blocks + 1) :
                 LET q == system.data_pointer + k * system.block_size
                 IN  q # last'.pointer
                        => read_block(system, file', q) = read_block(system, file, q)
            /\ read_nodes_addresses(system, file') = read_nodes_addresses(system, file)
            /\ read_bitmaps(system, file') = read_bitmaps(system, file)]_vars

\* C28 witness: a block of block_size bytes was written inside the data
\* region, above its first block, through the handle of RDFS::new
C28_BlockWritten ==
    /\ pc = "created"
    /\ last.op = "write_block"
    /\ last.err = "Ok"
    /\ last.changed
    /\ last.data_pointer = system.data_pointer
    /\ last.len = system.block_size
    /\ last.pointer > system.data_pointer
    /\ last.pointer + system.block_size
          <= system.data_pointer + system.total_blocks * system.block_size
    /\ read_block(system, file, last.pointer).data = Fill(170, system.block_size)

\* C29 (SpecGeometry): for accepted parameters whose target
\* storage * redundancy / (100 * nodes) is not below the fixed regions,
\* node_storage of the super block SuperBlock::new returns is not below the
\* target, and exceeds it by less than 8 * block_size + 1 bytes (Shared) or
\* by less than block_size bytes (Private).
C29_NoUndershoot ==
    LET sb == geometry.sb
        target == RatCeil(NodeStorageTarget(args.storage, args.redundancy, args.nodes))
        fixed == SB_SIZE + RESERVED_AB + PK_SIZE * args.nodes
                 + (IF args.magic = "Shared" THEN RESERVED_BB ELSE 0)
        slack == IF args.magic = "Shared" THEN 8 * args.block_size + 1 ELSE args.block_size
    IN  (geometry.done /\ ~geometry.panicked /\ Accepted(args) /\ target >= fixed) =>
            /\ ~U64Lt(sb.node_storage, target)
            /\ U64Lt(sb.node_storage - target, slack)

\* C30 (SpecGeometry): for accepted parameters the regions of the super
\* block SuperBlock::new returns tile the shard.  Shared: the address block
\* starts at 256, the bitmap where it ends, the data region where the bitmap
\* ends; inode_pointer is an aligned block of the data region that
\* read_block accepts, and it ends at node_storage.  Private: the data
\* region starts where the address block ends and its total_blocks blocks
\* end at node_storage.
C30_RegionsTile ==
    LET sb == geometry.sb
    IN  (geometry.done /\ ~geometry.panicked /\ Accepted(args)) =>
            IF args.magic = "Shared"
            THEN /\ sb.nodes_address_pointer = SB_SIZE
                 /\ sb.bitmaps_pointer = sb.nodes_address_pointer + sb.nodes_address_size
                 /\ sb.data_pointer = sb.bitmaps_pointer + sb.bitmaps_size
                 /\ ~U64Lt(sb.inode_pointer, sb.data_pointer)
                 /\ sb.inode_pointer + sb.block_size = sb.node_storage
                 /\ read_block(sb, NoFile, sb.inode_pointer).io
            ELSE /\ sb.data_pointer = SB_SIZE + sb.nodes_address_size
                 /\ sb.data_pointer + sb.total_blocks * sb.block_size = sb.node_storage

\* C21 (SpecSignature): sign_bytes on a buffer of 64 bytes or more changes
\* only its last 64 bytes and verify_bytes under the signer's public key is
\* then true; after a change of a byte before the last 64, or under another
\* key, verify_bytes is false; on a buffer below 64 bytes sign_bytes changes
\* nothing and verify_bytes is false.
C21_SignatureEnvelope ==
    LET L == Len(buffer)
        own == parsed.public_key = pk_of(block.private_key)
    IN  /\ pc = "signed" =>
              /\ L = Len(block.before)
              /\ L >= 64 => Slice(buffer, 0, L - 64) = Slice(block.before, 0, L - 64)
              /\ L < 64 => buffer = block.before
        /\ (pc = "verified" /\ L >= 64 /\ block.stage = "signed" /\ own) => parsed.ok
        /\ (pc = "verified" /\ L >= 64 /\ block.stage = "changed"
            /\ block.changed_at <= L - 64) => ~parsed.ok
        /\ (pc = "verified" /\ L >= 64 /\ block.stage # "unsigned" /\ ~own) => ~parsed.ok
        /\ (pc = "verified" /\ L < 64) => ~parsed.ok

\* C21 witness: a buffer with bytes before its trailing field was signed and
\* verified under the signer's public key
C21_SignedBufferVerified ==
    /\ pc = "verified"
    /\ block.stage = "signed"
    /\ Len(buffer) > 64
    /\ buffer # block.before
    /\ parsed.public_key = pk_of(block.private_key)
    /\ parsed.ok

\* C22 (SpecIterator): every next() on the iterator of read_blocks(ranges)
\* returns.  With the blocks of the ranges numbered in list order and, within
\* a range, by ascending j, a next() that returns Some passes over blocks
\* whose read fails and returns the block_size bytes at pointer + j *
\* block_size of the first block it can read; a next() that returns None
\* has passed over every remaining block.  The items returned never
\* outnumber the blocks of the ranges.
C22_YieldsReadableBlocksInOrder ==
    [][LET it == iterator
           now == iterator'
           bs == it.block_size
           RECURSIVE Starts(_, _)
           Starts(i, j) ==
               IF i > Len(it.ranges) THEN <<>>
               ELSE IF j >= it.ranges[i].blocks THEN Starts(i + 1, 0)
               ELSE <<it.ranges[i].pointer + j * bs>> \o Starts(i, j + 1)
           all == Starts(1, 0)
           k == Len(all) - Len(Starts(it.range, it.block))
           failed(n) == read_range(file, all[n], all[n] + bs).err # "Ok"
       IN  (/\ it.active
            /\ now # it
            /\ now.ranges = it.ranges
            /\ now.some \/ now.panicked \/ now.range > Len(now.ranges))
           => /\ ~now.panicked
              /\ now.yields <= Len(all)
              /\ IF now.some
                 THEN \E n \in (k + 1)..Len(all) :
                        /\ \A m \in (k + 1)..(n - 1) : failed(m)
                        /\ now.item = read_range(file, all[n], all[n] + bs).data
                        /\ ~failed(n)
                        /\ Len(now.item) = bs
                        /\ now.yields = it.yields + 1
                        /\ Len(Starts(now.range, now.block)) = Len(all) - n
                 ELSE /\ \A m \in (k + 1)..Len(all) : failed(m)
                      /\ now.yields = it.yields]_vars

\* C25 (SpecIterator): the iterator of read_blocks reads a block when next()
\* reaches it.  While the file is as it was at the read_blocks call, the
\* item is the block as of the call; after a write_block(p, d) of
\* block_size bytes that came between the call and the next() that reaches
\* p, the item for p is d.
C25_IteratorReadsLazily ==
    [][LET it == iterator
           now == iterator'
           bs == it.block_size
           p == now.ranges[now.range].pointer + (now.block - 1) * bs
       IN  (it.active /\ now # it /\ now.ranges = it.ranges /\ now.some)
           => /\ file = it.snapshot
                    => now.item = read_range(it.snapshot, p, p + bs).data
              /\ (/\ file # it.snapshot
                  /\ last.op = "write_block"
                  /\ last.err = "Ok"
                  /\ last.io
                  /\ last.pointer = p
                  /\ last.len = bs)
                    => \A d \in DataInputs(system) : Len(d) = bs => now.item = d]_vars

\* C25 witness: the iterator returned a block that write_block had written
\* after the read_blocks call, and that was different at the call
C25_YieldedConcurrentWrite ==
    /\ iterator.active
    /\ iterator.some
    /\ file # iterator.snapshot
    /\ last.op = "write_block"
    /\ last.err = "Ok"
    /\ last.len = iterator.block_size
    /\ last.pointer = iterator.ranges[iterator.range].pointer
                      + (iterator.block - 1) * iterator.block_size
    /\ iterator.item = Fill(170, iterator.block_size)
    /\ read_range(iterator.snapshot, last.pointer,
                  last.pointer + iterator.block_size).data # iterator.item

\* C24 (SpecShard): on a created drive no write_block, write_nodes_addresses
\* or write_bitmaps call, accepted or rejected, changes bytes [0, 256) of
\* the shard file, and a mount_drive after any of them returns the super
\* block RDFS::new wrote.
C24_SuperBlockWrittenOnce ==
    [][/\ Slice(file'.bytes, 0, SB_SIZE) = Slice(file.bytes, 0, SB_SIZE)
       /\ mounted' # mounted => (mounted'.err = "Ok" /\ mounted'.sb = system)]_vars

=============================================================================
